---- MODULE Spec2Model ----
(***************************************************************************)
(* A model of the rpki-client resource-certificate core:                   *)
(*   usr.sbin/rpki-client/validate.c  (coverage validator)                 *)
(*   usr.sbin/rpki-client/cert.c      (certificate parser, serializer,     *)
(*                                     authority tree lookup, BRK set)     *)
(*                                                                         *)
(* C strings are sequences of non-zero character codes; the null pointer   *)
(* is the one-element sequence <<0>>, which no C string can equal.         *)
(* Widths are scaled down (UintBits for uint32_t, ByteBits for an octet,   *)
(* V4Bytes / V6Bytes for the 4 / 16 octets of an address) so that wrap     *)
(* around and the extremes of the ranges are reachable.                    *)
(***************************************************************************)
EXTENDS Integers, Sequences, FiniteSets, TLC

VARIABLES
    auths,      \* the authority tree: an arena of struct auth, in insertion order
    last,       \* the last validator call: operation, argument, verdict
    build,      \* the data model of the build: the width of size_t
    brks,       \* the BRK tree: a set of struct brk
    brkcerts,   \* history: the certificates handed to cert_insert_brks
    brklog,     \* history: the struct brk built by each insert_brk call
    brkrun,     \* cert_insert_brks in progress: its loop variables
    px,         \* the last parse: operation, certificate, TAL key, outcome
    wire,       \* the pipe from the parser to the validator
    sent,       \* history: the record last written with cert_buffer
    rd,         \* the record last read with cert_read
    accres,     \* struct parse's result while its resources are appended
    app,        \* the last append_ip / append_as call: entry, result, set before
    call        \* the last call of a URI or file-name test: arguments, verdict

-----------------------------------------------------------------------------
(* Bounds of the model. *)

MaxAuths == 3
MaxBrkCerts == 2
MaxBrkLog == 5
UintBits == 3
ByteBits == 2
V4Bytes == 2
V6Bytes == 3

-----------------------------------------------------------------------------
(* Basic values. *)

NULL == <<0>>

NOAUTH == 0

RECURSIVE Pow2(_)
Pow2(n) == IF n = 0 THEN 1 ELSE 2 * Pow2(n - 1)

UINT32_MAX == Pow2(UintBits) - 1

ByteMax == Pow2(ByteBits) - 1

AFI_IPV4 == "AFI_IPV4"
AFI_IPV6 == "AFI_IPV6"

CERT_IP_ADDR == "CERT_IP_ADDR"
CERT_IP_INHERIT == "CERT_IP_INHERIT"
CERT_IP_RANGE == "CERT_IP_RANGE"

CERT_AS_ID == "CERT_AS_ID"
CERT_AS_INHERIT == "CERT_AS_INHERIT"
CERT_AS_RANGE == "CERT_AS_RANGE"

CERT_PURPOSE_INVALID == "CERT_PURPOSE_INVALID"
CERT_PURPOSE_CA == "CERT_PURPOSE_CA"
CERT_PURPOSE_BGPSEC_ROUTER == "CERT_PURPOSE_BGPSEC_ROUTER"

-----------------------------------------------------------------------------
(* IP primitives (ip.c). *)

\* The number of octets of an address of the family.
AfiSize(afi) == IF afi = AFI_IPV4 THEN V4Bytes ELSE V6Bytes

\* unsigned char[16], zeroed.
ZeroAddr == [i \in 1..V6Bytes |-> 0]

\* An address from its leading octets, zero-filled.
MkAddr(bs) == [i \in 1..V6Bytes |-> IF i <= Len(bs) THEN bs[i] ELSE 0]

\* memcmp over the first n octets: -1, 0 or 1.
RECURSIVE memcmp_from(_, _, _, _)
memcmp_from(a, b, n, i) ==
    IF i > n THEN 0
    ELSE IF a[i] < b[i] THEN -1
    ELSE IF a[i] > b[i] THEN 1
    ELSE memcmp_from(a, b, n, i + 1)

memcmp(a, b, n) == memcmp_from(a, b, n, 1)

\* struct ip_addr, zeroed.
ZeroIpAddr == [addr |-> ZeroAddr, prefixlen |-> 0]

\* The number of bits of octet j (1-based) that a prefix of plen bits fixes.
FixedBits(plen, j) ==
    LET k == plen - (j - 1) * ByteBits
    IN  IF k < 0 THEN 0 ELSE IF k > ByteBits THEN ByteBits ELSE k

\* The lowest address of a prefix: the bits after the prefix are zero.
PrefixMin(afi, ip) ==
    [j \in 1..V6Bytes |->
        IF j > AfiSize(afi) THEN 0
        ELSE LET free == Pow2(ByteBits - FixedBits(ip.prefixlen, j))
             IN  ip.addr[j] - (ip.addr[j] % free)]

\* The highest address of a prefix: the bits after the prefix are one.
PrefixMax(afi, ip) ==
    [j \in 1..V6Bytes |->
        IF j > AfiSize(afi) THEN 0
        ELSE LET free == Pow2(ByteBits - FixedBits(ip.prefixlen, j))
             IN  ip.addr[j] - (ip.addr[j] % free) + (free - 1)]

\* struct cert_ip, zeroed apart from the family (memset in sbgp_ipaddrfam).
ZeroCertIp(afi) ==
    [afi |-> afi, type |-> CERT_IP_ADDR, min |-> ZeroAddr, max |-> ZeroAddr,
     ip |-> ZeroIpAddr, range |-> [min |-> ZeroIpAddr, max |-> ZeroIpAddr]]

\* Fill in min and max of an entry from its prefix or its range.
ip_cert_compose_ranges(ip) ==
    IF ip.type = CERT_IP_ADDR
    THEN [ip EXCEPT !.min = PrefixMin(ip.afi, ip.ip),
                    !.max = PrefixMax(ip.afi, ip.ip)]
    ELSE IF ip.type = CERT_IP_RANGE
    THEN [ip EXCEPT !.min = PrefixMin(ip.afi, ip.range.min),
                    !.max = PrefixMax(ip.afi, ip.range.max)]
    ELSE ip

\* Whether the composed range is in order (min <= max).
ip_cert_ranges_ok(ip) ==
    ip.type = CERT_IP_INHERIT \/ memcmp(ip.min, ip.max, AfiSize(ip.afi)) <= 0

\* Is [min, max] covered by the set ips?  >0 covered, 0 the set inherits or
\* has nothing for this family, <0 a non-inheriting set that does not cover.
RECURSIVE ip_addr_check_covered_from(_, _, _, _, _, _)
ip_addr_check_covered_from(afi, min, max, ips, i, seen) ==
    IF i > Len(ips) THEN (IF seen THEN -1 ELSE 0)
    ELSE IF ips[i].afi # afi
    THEN ip_addr_check_covered_from(afi, min, max, ips, i + 1, seen)
    ELSE IF ips[i].type = CERT_IP_INHERIT THEN 0
    ELSE IF /\ memcmp(ips[i].min, min, AfiSize(afi)) <= 0
            /\ memcmp(ips[i].max, max, AfiSize(afi)) >= 0
    THEN 1
    ELSE ip_addr_check_covered_from(afi, min, max, ips, i + 1, TRUE)

ip_addr_check_covered(afi, min, max, ips) ==
    ip_addr_check_covered_from(afi, min, max, ips, 1, FALSE)

-----------------------------------------------------------------------------
(* AS primitives (as.c). *)

\* struct cert_as, zeroed.
ZeroCertAs == [type |-> CERT_AS_ID, id |-> 0, range |-> [min |-> 0, max |-> 0]]

AsMin(e) == IF e.type = CERT_AS_ID THEN e.id ELSE e.range.min
AsMax(e) == IF e.type = CERT_AS_ID THEN e.id ELSE e.range.max

\* Is [min, max] covered by the set as?  >0 covered, 0 inheriting, <0 not.
RECURSIVE as_check_covered_from(_, _, _, _)
as_check_covered_from(min, max, as, i) ==
    IF i > Len(as) THEN -1
    ELSE IF as[i].type = CERT_AS_INHERIT THEN 0
    ELSE IF min >= AsMin(as[i]) /\ max <= AsMax(as[i]) THEN 1
    ELSE as_check_covered_from(min, max, as, i + 1)

as_check_covered(min, max, as) == as_check_covered_from(min, max, as, 1)

-----------------------------------------------------------------------------
(* Records. *)

NOX509 == "X509_NULL"

\* struct cert after calloc.
ZeroCert ==
    [valid |-> 0, expires |-> 0, purpose |-> CERT_PURPOSE_INVALID,
     ips |-> <<>>, as |-> <<>>,
     mft |-> NULL, notify |-> NULL, repo |-> NULL, crl |-> NULL, aia |-> NULL,
     aki |-> NULL, ski |-> NULL, tal |-> NULL, pubkey |-> NULL, x509 |-> NOX509]

AsId(n) == [ZeroCertAs EXCEPT !.type = CERT_AS_ID, !.id = n]
AsRange(lo, hi) ==
    [ZeroCertAs EXCEPT !.type = CERT_AS_RANGE, !.range = [min |-> lo, max |-> hi]]
AsInherit == [ZeroCertAs EXCEPT !.type = CERT_AS_INHERIT]

IpPrefix(afi, bs, plen) ==
    ip_cert_compose_ranges(
        [ZeroCertIp(afi) EXCEPT !.type = CERT_IP_ADDR,
                                !.ip = [addr |-> MkAddr(bs), prefixlen |-> plen]])
IpInherit(afi) == [ZeroCertIp(afi) EXCEPT !.type = CERT_IP_INHERIT]

-----------------------------------------------------------------------------
(* The authority tree (cert.c) and the coverage validator (validate.c). *)

\* RB_FIND by SKI: the index of the authority with that SKI, or NOAUTH.
auth_find(tree, ski) ==
    IF \E i \in 1..Len(tree) : tree[i].cert.ski = ski
    THEN CHOOSE i \in 1..Len(tree) : tree[i].cert.ski = ski
    ELSE NOAUTH

\* valid_as asking as_check_covered about an empty set too.
RECURSIVE valid_as_askempty(_, _, _, _)
valid_as_askempty(tree, a, min, max) ==
    IF a = NOAUTH THEN 0
    ELSE LET c == as_check_covered(min, max, tree[a].cert.as)
         IN  IF c > 0 THEN 1
             ELSE IF c < 0 THEN 0
             ELSE valid_as_askempty(tree, tree[a].parent, min, max)

\* Walk up the chain from a looking for the AS range; 1 covered, 0 not.
RECURSIVE valid_as(_, _, _, _)
valid_as(tree, a, min, max) ==
    IF a = NOAUTH THEN 0
    ELSE LET c == IF Len(tree[a].cert.as) > 0
                  THEN as_check_covered(min, max, tree[a].cert.as)
                  ELSE 0
         IN  IF Len(tree[a].cert.as) > 0 /\ c > 0 THEN 1
             ELSE IF Len(tree[a].cert.as) > 0 /\ c < 0 THEN 0
             ELSE valid_as(tree, tree[a].parent, min, max)

\* valid_ip with a refusal treated like an inheriting set: the walk goes on.
RECURSIVE valid_ip_norefuse(_, _, _, _, _)
valid_ip_norefuse(tree, a, afi, min, max) ==
    IF a = NOAUTH THEN 0
    ELSE LET c == ip_addr_check_covered(afi, min, max, tree[a].cert.ips)
         IN  IF c > 0 THEN 1
             ELSE valid_ip_norefuse(tree, tree[a].parent, afi, min, max)

\* Walk up the chain from a looking for the address range; 1 covered, 0 not.
RECURSIVE valid_ip(_, _, _, _, _)
valid_ip(tree, a, afi, min, max) ==
    IF a = NOAUTH THEN 0
    ELSE LET c == ip_addr_check_covered(afi, min, max, tree[a].cert.ips)
         IN  IF c > 0 THEN 1
             ELSE IF c < 0 THEN 0
             ELSE valid_ip(tree, tree[a].parent, afi, min, max)

\* valid_ski_aki without the duplicate-SKI test.
valid_ski_aki_nodup(tree, ski, aki) == auth_find(tree, aki)

\* The SKI must be new; the parent is the authority named by the AKI.
valid_ski_aki(tree, ski, aki) ==
    IF auth_find(tree, ski) # NOAUTH THEN NOAUTH
    ELSE auth_find(tree, aki)

\* Authenticate a trust anchor.
valid_ta(tree, cert) ==
    IF Len(cert.as) > 0 /\ cert.as[1].type = CERT_AS_INHERIT THEN 0
    ELSE IF \E i \in 1..Len(cert.ips) : cert.ips[i].type = CERT_IP_INHERIT THEN 0
    ELSE IF auth_find(tree, cert.ski) # NOAUTH THEN 0
    ELSE 1

\* valid_cert_as with inherit skipped whatever the purpose.
RECURSIVE valid_cert_as_anypurpose(_, _, _, _)
valid_cert_as_anypurpose(tree, a, cert, i) ==
    IF i > Len(cert.as) THEN 1
    ELSE IF cert.as[i].type = CERT_AS_INHERIT
    THEN valid_cert_as_anypurpose(tree, a, cert, i + 1)
    ELSE IF valid_as(tree, a, AsMin(cert.as[i]), AsMax(cert.as[i])) # 0
    THEN valid_cert_as_anypurpose(tree, a, cert, i + 1)
    ELSE 0

\* The AS loop of valid_cert from entry i on: 1 when it runs to the end.
RECURSIVE valid_cert_as(_, _, _, _)
valid_cert_as(tree, a, cert, i) ==
    IF i > Len(cert.as) THEN 1
    ELSE IF cert.as[i].type = CERT_AS_INHERIT
    THEN IF cert.purpose = CERT_PURPOSE_BGPSEC_ROUTER THEN 0
         ELSE valid_cert_as(tree, a, cert, i + 1)
    ELSE IF valid_as(tree, a, AsMin(cert.as[i]), AsMax(cert.as[i])) # 0
    THEN valid_cert_as(tree, a, cert, i + 1)
    ELSE 0

\* The IP loop of valid_cert and of valid_roa from entry i on.
RECURSIVE valid_ips(_, _, _, _)
valid_ips(tree, a, ips, i) ==
    IF i > Len(ips) THEN 1
    ELSE IF valid_ip(tree, a, ips[i].afi, ips[i].min, ips[i].max) # 0
    THEN valid_ips(tree, a, ips, i + 1)
    ELSE 0

\* Validate a non-TA certificate.
valid_cert(tree, cert) ==
    LET a == valid_ski_aki(tree, cert.ski, cert.aki)
    IN  IF a = NOAUTH THEN 0
        ELSE IF valid_cert_as(tree, a, cert, 1) = 0 THEN 0
        ELSE valid_ips(tree, a, cert.ips, 1)

\* valid_roa letting a ROA without a parent through.
valid_roa_orphan(tree, roa) ==
    LET a == valid_ski_aki(tree, roa.ski, roa.aki)
    IN  IF a = NOAUTH THEN [ret |-> 1, roa |-> roa]
        ELSE [ret |-> valid_ips(tree, a, roa.ips, 1),
              roa |-> [roa EXCEPT !.tal = tree[a].tal]]

\* valid_roa with the loop leaving after the first prefix.
valid_roa_firstonly(tree, roa) ==
    LET a == valid_ski_aki(tree, roa.ski, roa.aki)
    IN  IF a = NOAUTH THEN [ret |-> 0, roa |-> roa]
        ELSE [ret |-> IF Len(roa.ips) = 0 THEN 1
                      ELSE valid_ip(tree, a, roa.ips[1].afi, roa.ips[1].min,
                                    roa.ips[1].max),
              roa |-> [roa EXCEPT !.tal = tree[a].tal]]

\* Validate a ROA: the verdict, and the ROA as the call leaves it.
valid_roa(tree, roa) ==
    LET a == valid_ski_aki(tree, roa.ski, roa.aki)
    IN  IF a = NOAUTH THEN [ret |-> 0, roa |-> roa]
        ELSE [ret |-> valid_ips(tree, a, roa.ips, 1),
              roa |-> [roa EXCEPT !.tal = tree[a].tal]]

\* The caller's insertion of an accepted certificate: a new authority with
\* the given parent, the certificate stamped with its TAL and marked valid.
auth_insert(tree, cert, parent, tal) ==
    Append(tree, [cert |-> [cert EXCEPT !.tal = tal, !.valid = 1],
                  parent |-> parent, tal |-> tal])

-----------------------------------------------------------------------------
(* The BRK set (cert.c): brkcmp, insert_brk, cert_insert_brks. *)

\* The width of size_t under the data model of the build.
SizeBits(b) == IF b = "ILP32" THEN UintBits ELSE 2 * UintBits

Builds == {"ILP32", "LP64"}

\* Conversion of an unsigned value to int (two's complement, UintBits wide),
\* as at the call of insert_brk(tree, cert, int asid).
ToInt(v) ==
    LET m == v % Pow2(UintBits)
    IN  IF m >= Pow2(UintBits - 1) THEN m - Pow2(UintBits) ELSE m

\* Conversion of an int to uint32_t, as at b->asid = asid.
ToUint32(v) == v % Pow2(UintBits)

\* strcmp on C strings: the sign of the first differing character, the
\* terminating NUL (0) included.
RECURSIVE strcmp_from(_, _, _)
strcmp_from(a, b, i) ==
    LET ca == IF i <= Len(a) THEN a[i] ELSE 0
        cb == IF i <= Len(b) THEN b[i] ELSE 0
    IN  IF ca # cb THEN (IF ca > cb THEN 1 ELSE -1)
        ELSE IF ca = 0 THEN 0
        ELSE strcmp_from(a, b, i + 1)

strcmp(a, b) == strcmp_from(a, b, 1)

brkcmp(a, b) ==
    IF a.asid > b.asid THEN 1
    ELSE IF a.asid < b.asid THEN -1
    ELSE LET rv == strcmp(a.ski, b.ski)
         IN  IF rv > 0 THEN 1
             ELSE IF rv < 0 THEN -1
             ELSE strcmp(a.pubkey, b.pubkey)

\* The struct brk that insert_brk builds from the certificate.
MkBrk(cert, asid) ==
    [asid |-> ToUint32(asid), expires |-> cert.expires, tal |-> cert.tal,
     ski |-> cert.ski, pubkey |-> cert.pubkey]

insert_brk_notstrict(tree, cert, asid) ==
    LET b == MkBrk(cert, asid)
    IN  IF \E f \in tree : brkcmp(f, b) = 0
        THEN LET found == CHOOSE f \in tree : brkcmp(f, b) = 0
             IN  IF found.expires <= b.expires
                 THEN (tree \ {found}) \cup
                      {[found EXCEPT !.expires = b.expires, !.tal = b.tal]}
                 ELSE tree
        ELSE tree \cup {b}

\* RB_INSERT returns the record already stored under the key, if any, and
\* inserts b otherwise; a found record takes the later expiry and its TAL.
insert_brk(tree, cert, asid) ==
    LET b == MkBrk(cert, asid)
    IN  IF \E f \in tree : brkcmp(f, b) = 0
        THEN LET found == CHOOSE f \in tree : brkcmp(f, b) = 0
             IN  IF found.expires < b.expires
                 THEN (tree \ {found}) \cup
                      {[found EXCEPT !.expires = b.expires, !.tal = b.tal]}
                 ELSE tree
        ELSE tree \cup {b}

-----------------------------------------------------------------------------
(* C strings and URIs (libc, validate.c). *)

\* The character at 1-based position i; the terminating NUL after the end.
CharAt(s, i) == IF i <= Len(s) THEN s[i] ELSE 0

isalnum(c) ==
    (c >= 48 /\ c <= 57) \/ (c >= 65 /\ c <= 90) \/ (c >= 97 /\ c <= 122)

ispunct(c) ==
    (c >= 33 /\ c <= 47) \/ (c >= 58 /\ c <= 64) \/ (c >= 91 /\ c <= 96)
        \/ (c >= 123 /\ c <= 126)

tolower(c) == IF c >= 65 /\ c <= 90 THEN c + 32 ELSE c

\* strncasecmp: the sign of the first difference within n characters.
RECURSIVE strncasecmp_from(_, _, _, _)
strncasecmp_from(a, b, n, i) ==
    IF i > n THEN 0
    ELSE LET ca == tolower(CharAt(a, i))
             cb == tolower(CharAt(b, i))
         IN  IF ca # cb THEN (IF ca > cb THEN 1 ELSE -1)
             ELSE IF ca = 0 THEN 0
             ELSE strncasecmp_from(a, b, n, i + 1)

strncasecmp(a, b, n) == strncasecmp_from(a, b, n, 1)

strcasecmp(a, b) == strncasecmp_from(a, b, Len(a) + 1, 1)

\* strstr: the 1-based position of the first occurrence of needle, 0 for a
\* null result.
strstr(haystack, needle) ==
    LET hits == { i \in 1..(Len(haystack) + 1) :
                      /\ i + Len(needle) - 1 <= Len(haystack)
                      /\ SubSeq(haystack, i, i + Len(needle) - 1) = needle }
    IN  IF hits = {} THEN 0
        ELSE CHOOSE i \in hits : \A j \in hits : i <= j

\* strndup: at most n characters, up to the terminating NUL.
strndup(d, n) == SubSeq(d, 1, IF n < Len(d) THEN n ELSE Len(d))

\* "rsync://", "https://", ".mft", "/."
PROTO_RSYNC == <<114, 115, 121, 110, 99, 58, 47, 47>>
PROTO_HTTPS == <<104, 116, 116, 112, 115, 58, 47, 47>>
EXT_MFT == <<46, 109, 102, 116>>
SLASH_DOT == <<47, 46>>

valid_uri(uri, usz, proto) ==
    IF \E s \in 1..usz : ~isalnum(CharAt(uri, s)) /\ ~ispunct(CharAt(uri, s))
    THEN 0
    ELSE IF proto # NULL /\ strncasecmp(uri, proto, Len(proto)) # 0 THEN 0
    ELSE IF strstr(uri, SLASH_DOT) # 0 THEN 0
    ELSE 1

\* strchr / strrchr: the 1-based position of the first / last c, 0 for a
\* null result.
strchr(s, c) ==
    IF \E i \in 1..Len(s) : s[i] = c
    THEN CHOOSE i \in 1..Len(s) : s[i] = c /\ \A j \in 1..(i - 1) : s[j] # c
    ELSE 0

strrchr(s, c) ==
    IF \E i \in 1..Len(s) : s[i] = c
    THEN CHOOSE i \in 1..Len(s) :
             s[i] = c /\ \A j \in (i + 1)..Len(s) : s[j] # c
    ELSE 0

\* ".cer", ".crl", ".gbr", ".roa"
EXT_CER == <<46, 99, 101, 114>>
EXT_CRL == <<46, 99, 114, 108>>
EXT_GBR == <<46, 103, 98, 114>>
EXT_ROA == <<46, 114, 111, 97>>

valid_filename_anydots(fn) ==
    LET sz == Len(fn)
        ext == SubSeq(fn, sz - 3, sz)
    IN  IF sz < 5 THEN 0
        ELSE IF \E i \in 1..sz :
                    /\ ~isalnum(fn[i])
                    /\ fn[i] # 45 /\ fn[i] # 95 /\ fn[i] # 46
        THEN 0
        ELSE IF strcasecmp(ext, EXT_CER) = 0 THEN 1
        ELSE IF strcasecmp(ext, EXT_CRL) = 0 THEN 1
        ELSE IF strcasecmp(ext, EXT_GBR) = 0 THEN 1
        ELSE IF strcasecmp(ext, EXT_ROA) = 0 THEN 1
        ELSE 0

\* fn + sz - 4 is the string of the last four characters.
valid_filename(fn) ==
    LET sz == Len(fn)
        ext == SubSeq(fn, sz - 3, sz)
    IN  IF sz < 5 THEN 0
        ELSE IF \E i \in 1..sz :
                    /\ ~isalnum(fn[i])
                    /\ fn[i] # 45 /\ fn[i] # 95 /\ fn[i] # 46
        THEN 0
        ELSE IF strchr(fn, 46) # strrchr(fn, 46) THEN 0
        ELSE IF strcasecmp(ext, EXT_CER) = 0 THEN 1
        ELSE IF strcasecmp(ext, EXT_CRL) = 0 THEN 1
        ELSE IF strcasecmp(ext, EXT_GBR) = 0 THEN 1
        ELSE IF strcasecmp(ext, EXT_ROA) = 0 THEN 1
        ELSE 0

-----------------------------------------------------------------------------
(* The certificate parser (cert.c).  A decoded X.509 object is a record      *)
(* [ok, id, exts, notAfter, purpose, spki]; an extension is a record         *)
(* [nid, wf, fams, ases, ads, str], wf telling whether its ASN.1 envelope    *)
(* has the shape the handler asks for, and one of fams / ases / ads / str    *)
(* holding its payload.                                                      *)

NID_sbgp_ipAddrBlock == "NID_sbgp_ipAddrBlock"
NID_sbgp_autonomousSysNum == "NID_sbgp_autonomousSysNum"
NID_sinfo_access == "NID_sinfo_access"
NID_crl_distribution_points == "NID_crl_distribution_points"
NID_info_access == "NID_info_access"
NID_authority_key_identifier == "NID_authority_key_identifier"
NID_subject_key_identifier == "NID_subject_key_identifier"
NID_ext_key_usage == "NID_ext_key_usage"
NID_undef == "NID_undef"

V_ASN1_NULL == "V_ASN1_NULL"
V_ASN1_SEQUENCE == "V_ASN1_SEQUENCE"
V_ASN1_INTEGER == "V_ASN1_INTEGER"
V_ASN1_BIT_STRING == "V_ASN1_BIT_STRING"
V_ASN1_BOOLEAN == "V_ASN1_BOOLEAN"

ASID_TYPE_ASNUM == 0
ASID_TYPE_RDI == 1
ASID_TYPE_MAX == ASID_TYPE_RDI

carepo_oid == "1.3.6.1.5.5.7.48.5"
mft_oid == "1.3.6.1.5.5.7.48.10"
notify_oid == "1.3.6.1.5.5.7.48.13"

\* The return code of a sub-parser with struct parse's result as it leaves it.
\* Where a step's result r is tested and then used, it is bound with
\* r \in {step}, so that the step is taken once.
\* live holds what the step allocated and has not freed when it returns: the
\* steps that leave through their out label free their sequences there.
R(rc, res) == [rc |-> rc, res |-> res, live |-> {}]

\* A return that passes by the out label, with obj still allocated.
NotFreed(r, obj) == [r EXCEPT !.live = @ \cup {obj}]

SEQ_asrange == "sbgp_asrange: seq"
SEQ_addr_range == "sbgp_addr_range: seq"

\* Do [amin, amax] and [bmin, bmax] of n octets intersect?
IpIntersect(amin, amax, bmin, bmax, n) ==
    memcmp(amin, bmax, n) <= 0 /\ memcmp(bmin, amax, n) <= 0

\* No overlap with a non-inherit entry of the family, no second inherit.
ip_addr_check_overlap(ip, ips) ==
    IF \E i \in 1..Len(ips) :
           /\ ips[i].afi = ip.afi
           /\ IF ip.type = CERT_IP_INHERIT
              THEN ips[i].type = CERT_IP_INHERIT
              ELSE /\ ips[i].type # CERT_IP_INHERIT
                   /\ IpIntersect(ip.min, ip.max, ips[i].min, ips[i].max,
                                  AfiSize(ip.afi))
    THEN 0 ELSE 1

\* No overlap with a non-inherit entry, no second inherit.
as_check_overlap(a, as) ==
    IF \E i \in 1..Len(as) :
           IF a.type = CERT_AS_INHERIT
           THEN as[i].type = CERT_AS_INHERIT
           ELSE /\ as[i].type # CERT_AS_INHERIT
                /\ AsMin(a) <= AsMax(as[i])
                /\ AsMin(as[i]) <= AsMax(a)
    THEN 0 ELSE 1

append_ip_unchecked(res, ip) ==
    R(1, [res EXCEPT !.ips = Append(@, ip)])

append_ip(res, ip) ==
    IF ip_addr_check_overlap(ip, res.ips) = 0 THEN R(0, res)
    ELSE R(1, [res EXCEPT !.ips = Append(@, ip)])

append_as(res, as) ==
    IF as_check_overlap(as, res.as) = 0 THEN R(0, res)
    ELSE R(1, [res EXCEPT !.as = Append(@, as)])

\* A bit string [bs, bits]: its octets and the number of significant bits.
\* It is an address of the family if it fits the family's width.
ip_addr_parse_ok(b, afi) ==
    /\ afi \in {AFI_IPV4, AFI_IPV6}
    /\ Len(b.bs) <= AfiSize(afi)
    /\ b.bits <= Len(b.bs) * ByteBits
    /\ b.bits + ByteBits > Len(b.bs) * ByteBits

ip_addr_parse(b) == [addr |-> MkAddr(b.bs), prefixlen |-> b.bits]

\* The two-octet address family of an IPAddressFamily.
ip_addr_afi_parse_ok(afi) == afi \in {AFI_IPV4, AFI_IPV6}

\* An ASN.1 integer is an AS number if it fits uint32_t.
as_id_parse_ok(v) == v >= 0 /\ v <= UINT32_MAX

\* sbgp_addr: a prefix, RFC 3779 2.2.3.8.
sbgp_addr(res, ip, b) ==
    IF ~ip_addr_parse_ok(b, ip.afi) THEN R(0, res)
    ELSE CHOOSE out \in
             { IF ~ip_cert_ranges_ok(nip) THEN R(0, res) ELSE append_ip(res, nip) :
               nip \in {ip_cert_compose_ranges(
                            [ip EXCEPT !.ip = ip_addr_parse(b)])} } : TRUE

\* sbgp_addr_range: a two-element sequence of bit strings, RFC 3779 2.2.3.9.
sbgp_addr_range(res, ip, it) ==
    IF ~it.wf THEN R(0, res)
    ELSE IF ~ip_addr_parse_ok(it.lo, ip.afi) THEN R(0, res)
    ELSE IF ~ip_addr_parse_ok(it.hi, ip.afi) THEN R(0, res)
    ELSE CHOOSE out \in
             { IF ~ip_cert_ranges_ok(nip)
               THEN NotFreed(R(0, res), SEQ_addr_range)
               ELSE append_ip(res, nip) :
               nip \in {ip_cert_compose_ranges(
                            [ip EXCEPT !.range =
                                 [min |-> ip_addr_parse(it.lo),
                                  max |-> ip_addr_parse(it.hi)]])} } : TRUE

\* sbgp_addr_or_range: the loop over the IPAddressOrRange elements.
RECURSIVE sbgp_addr_or_range(_, _, _, _)
sbgp_addr_or_range(res, ip, items, i) ==
    IF i > Len(items) THEN R(1, res)
    ELSE LET t == items[i]
         IN  CHOOSE out \in
                 { IF r.rc = 0 THEN r
                   ELSE sbgp_addr_or_range(r.res, ip, items, i + 1) :
                   r \in {IF t.type = V_ASN1_BIT_STRING
                          THEN sbgp_addr(res, [ip EXCEPT !.type = CERT_IP_ADDR],
                                         t.lo)
                          ELSE IF t.type = V_ASN1_SEQUENCE
                          THEN sbgp_addr_range(
                                   res, [ip EXCEPT !.type = CERT_IP_RANGE], t)
                          ELSE R(0, res)} } : TRUE

\* sbgp_ipaddrfam: one IPAddressFamily, RFC 3779 2.2.3.2.
sbgp_ipaddrfam(res, fam) ==
    IF ~fam.wf THEN R(0, res)
    ELSE IF ~ip_addr_afi_parse_ok(fam.afi) THEN R(0, res)
    ELSE LET ip == ZeroCertIp(fam.afi)
         IN  IF fam.choice = V_ASN1_SEQUENCE
             THEN sbgp_addr_or_range(res, ip, fam.items, 1)
             ELSE IF fam.choice = V_ASN1_NULL
             THEN append_ip(res, [ip EXCEPT !.type = CERT_IP_INHERIT])
             ELSE R(0, res)

RECURSIVE sbgp_ipaddrfams(_, _, _)
sbgp_ipaddrfams(res, fams, i) ==
    IF i > Len(fams) THEN R(1, res)
    ELSE CHOOSE out \in
             { IF r.rc = 0 THEN r ELSE sbgp_ipaddrfams(r.res, fams, i + 1) :
               r \in {sbgp_ipaddrfam(res, fams[i])} } : TRUE

\* sbgp_ipaddrblk: the sbgp-ipAddrBlock extension, RFC 6487 4.8.10.
sbgp_ipaddrblk(res, ext) ==
    IF ~ext.wf THEN R(0, res) ELSE sbgp_ipaddrfams(res, ext.fams, 1)

\* sbgp_asrange: a two-integer sequence, RFC 3779 3.2.3.8.
sbgp_asrange(res, it) ==
    IF ~it.wf THEN R(0, res)
    ELSE IF ~as_id_parse_ok(it.min) THEN NotFreed(R(0, res), SEQ_asrange)
    ELSE IF ~as_id_parse_ok(it.max) THEN NotFreed(R(0, res), SEQ_asrange)
    ELSE IF it.max = it.min THEN R(0, res)
    ELSE IF it.max < it.min THEN R(0, res)
    ELSE append_as(res, [ZeroCertAs EXCEPT !.type = CERT_AS_RANGE,
                                           !.range = [min |-> it.min,
                                                      max |-> it.max]])

\* sbgp_asid: a single AS number, RFC 3779 3.2.3.10.
sbgp_asid(res, v) ==
    IF ~as_id_parse_ok(v) THEN R(0, res)
    ELSE IF v = 0 THEN R(0, res)
    ELSE append_as(res, [ZeroCertAs EXCEPT !.type = CERT_AS_ID, !.id = v])

RECURSIVE sbgp_asnum_items(_, _, _)
sbgp_asnum_items(res, items, i) ==
    IF i > Len(items) THEN R(1, res)
    ELSE LET tt == items[i]
         IN  CHOOSE out \in
                 { IF r.rc = 0 THEN r
                   ELSE sbgp_asnum_items(r.res, items, i + 1) :
                   r \in {IF tt.type = V_ASN1_INTEGER THEN sbgp_asid(res, tt.min)
                          ELSE IF tt.type = V_ASN1_SEQUENCE
                          THEN sbgp_asrange(res, tt)
                          ELSE R(0, res)} } : TRUE

\* sbgp_asnum: an ASIdentifierChoice, null (inherit) or a sequence.
sbgp_asnum(res, e) ==
    IF e.choice = V_ASN1_NULL
    THEN append_as(res, [ZeroCertAs EXCEPT !.type = CERT_AS_INHERIT])
    ELSE IF e.choice = V_ASN1_SEQUENCE
    THEN sbgp_asnum_items(res, e.items, 1)
    ELSE R(0, res)

RECURSIVE sbgp_assysnum_from(_, _, _)
sbgp_assysnum_from(res, ases, i) ==
    IF i > Len(ases) THEN R(1, res)
    ELSE LET t == ases[i]
         IN  IF ~t.wf THEN R(0, res)
             ELSE IF t.tag > ASID_TYPE_MAX THEN R(0, res)
             ELSE IF t.tag = ASID_TYPE_RDI
             THEN sbgp_assysnum_from(res, ases, i + 1)
             ELSE CHOOSE out \in
                      { IF r.rc = 0 THEN r
                        ELSE sbgp_assysnum_from(r.res, ases, i + 1) :
                        r \in {sbgp_asnum(res, t)} } : TRUE

\* sbgp_assysnum: the sbgp-autonomousSysNum extension, RFC 6487 4.8.11.
sbgp_assysnum(res, ext) ==
    IF ~ext.wf THEN R(0, res) ELSE sbgp_assysnum_from(res, ext.ases, 1)

sbgp_sia_resource_notify(res, d, dsz) ==
    IF res.notify # NULL THEN R(0, res)
    ELSE IF valid_uri(d, dsz, PROTO_HTTPS) = 0 THEN R(0, res)
    ELSE R(1, [res EXCEPT !.notify = strndup(d, dsz)])

sbgp_sia_resource_mft(res, d, dsz) ==
    IF res.mft # NULL THEN R(0, res)
    ELSE IF valid_uri(d, dsz, PROTO_RSYNC) = 0 THEN R(0, res)
    ELSE IF dsz < Len(EXT_MFT)
            \/ strcasecmp(SubSeq(d, dsz - Len(EXT_MFT) + 1, Len(d)), EXT_MFT) # 0
    THEN R(0, res)
    ELSE R(1, [res EXCEPT !.mft = strndup(d, dsz)])

sbgp_sia_resource_carepo(res, d, dsz) ==
    IF res.repo # NULL THEN R(0, res)
    ELSE IF valid_uri(d, dsz, PROTO_RSYNC) = 0 THEN R(0, res)
    ELSE R(1, [res EXCEPT !.repo = strndup(d, dsz)])

\* sbgp_sia_resource_entry: one accessDescription (OID, location).
sbgp_sia_resource_entry(res, ad) ==
    IF ~ad.wf THEN R(0, res)
    ELSE IF ad.oid = carepo_oid THEN sbgp_sia_resource_carepo(res, ad.d, ad.dsz)
    ELSE IF ad.oid = mft_oid THEN sbgp_sia_resource_mft(res, ad.d, ad.dsz)
    ELSE IF ad.oid = notify_oid THEN sbgp_sia_resource_notify(res, ad.d, ad.dsz)
    ELSE R(1, res)

RECURSIVE sbgp_sia_entries(_, _, _)
sbgp_sia_entries(res, ads, i) ==
    IF i > Len(ads) THEN R(1, res)
    ELSE CHOOSE out \in
             { IF r.rc = 0 THEN r ELSE sbgp_sia_entries(r.res, ads, i + 1) :
               r \in {sbgp_sia_resource_entry(res, ads[i])} } : TRUE

\* The outcomes of strstr on a null pointer: the process dies (-1), or the
\* call returns and the test that follows goes one way or the other.
UB_CRASH == 0 - 1
UbOutcomes == {UB_CRASH, 0, 1}

\* sbgp_sia_resource: the entries, then strstr(mft, repo) != mft, which is
\* called whether or not mft and repo were set.
sbgp_sia_resource(res, ads, ub) ==
    CHOOSE out \in
        { IF r.rc = 0 THEN r
          ELSE IF r.res.mft = NULL \/ r.res.repo = NULL THEN R(ub, r.res)
          ELSE IF strstr(r.res.mft, r.res.repo) # 1 THEN R(0, r.res)
          ELSE R(1, r.res) :
          r \in {sbgp_sia_entries(res, ads, 1)} } : TRUE

\* sbgp_sia: the subjectInfoAccess extension, RFC 6487 4.8.8.
sbgp_sia(res, ext, ub) ==
    IF ~ext.wf THEN R(0, res) ELSE sbgp_sia_resource(res, ext.ads, ub)

\* The payload of the first extension with the given NID, NULL without one:
\* what the X.509 helpers hand back (x509.c).
RECURSIVE x509_ext_str(_, _, _)
x509_ext_str(x, nid, i) ==
    IF i > Len(x.exts) THEN NULL
    ELSE IF x.exts[i].nid = nid THEN x.exts[i].str
    ELSE x509_ext_str(x, nid, i + 1)

x509_get_aki(x, ta) == x509_ext_str(x, NID_authority_key_identifier, 1)
x509_get_ski(x) == x509_ext_str(x, NID_subject_key_identifier, 1)
x509_get_aia(x) == x509_ext_str(x, NID_info_access, 1)
x509_get_crl(x) == x509_ext_str(x, NID_crl_distribution_points, 1)
x509_get_expire(x) == x.notAfter
x509_get_purpose(x) == x.purpose
x509_get_pubkey(x) == x.spki

\* The outcome of a parse: the record (ok = 1) or a null pointer (ok = 0),
\* the X.509 out-handle, whether the process died on the way, and what the
\* parse allocated and neither freed nor handed out.
ParseRet(ok, cert, xp, crash) ==
    [ok |-> ok, cert |-> cert, xp |-> xp, crash |-> crash, live |-> {}]

ParseFail == ParseRet(0, ZeroCert, NOX509, FALSE)
ParseCrash == ParseRet(0, ZeroCert, NOX509, TRUE)

\* The extension loop of cert_parse_inner: c is 1 unless a handler fails;
\* sia is sia_present.
RECURSIVE cert_parse_exts(_, _, _, _, _)
cert_parse_exts(res, sia, exts, i, ub) ==
    IF i > Len(exts) THEN [rc |-> 1, res |-> res, sia |-> sia, live |-> {}]
    ELSE LET ext == exts[i]
             nsia == IF ext.nid = NID_sinfo_access THEN 1 ELSE sia
         IN  CHOOSE out \in
                 { IF r.rc # 1
                   THEN [rc |-> r.rc, res |-> r.res, sia |-> nsia,
                         live |-> r.live]
                   ELSE cert_parse_exts(r.res, nsia, exts, i + 1, ub) :
                   r \in {IF ext.nid = NID_sbgp_ipAddrBlock
                          THEN sbgp_ipaddrblk(res, ext)
                          ELSE IF ext.nid = NID_sbgp_autonomousSysNum
                          THEN sbgp_assysnum(res, ext)
                          ELSE IF ext.nid = NID_sinfo_access
                          THEN sbgp_sia(res, ext, ub)
                          ELSE R(1, res)} } : TRUE

cert_parse_purpose_sia_ignored(res, x, sia) ==
    IF res.purpose = CERT_PURPOSE_CA
    THEN IF res.mft = NULL THEN R(0, res)
         ELSE IF Len(res.as) = 0 /\ Len(res.ips) = 0 THEN R(0, res)
         ELSE R(1, res)
    ELSE IF res.purpose = CERT_PURPOSE_BGPSEC_ROUTER
    THEN LET r == [res EXCEPT !.pubkey = x509_get_pubkey(x)]
         IN  IF r.pubkey = NULL THEN R(0, r)
             ELSE IF Len(r.ips) > 0 THEN R(0, r)
             ELSE R(1, r)
    ELSE R(0, res)

\* The required fields by purpose.
cert_parse_purpose(res, x, sia) ==
    IF res.purpose = CERT_PURPOSE_CA
    THEN IF res.mft = NULL THEN R(0, res)
         ELSE IF Len(res.as) = 0 /\ Len(res.ips) = 0 THEN R(0, res)
         ELSE R(1, res)
    ELSE IF res.purpose = CERT_PURPOSE_BGPSEC_ROUTER
    THEN LET r == [res EXCEPT !.pubkey = x509_get_pubkey(x)]
         IN  IF r.pubkey = NULL THEN R(0, r)
             ELSE IF Len(r.ips) > 0 THEN R(0, r)
             ELSE IF sia # 0 THEN R(0, r)
             ELSE R(1, r)
    ELSE R(0, res)

cert_parse_ids_noaia(res, ta) ==
    IF res.ski = NULL THEN 0
    ELSE IF ta # 0 /\ res.aki # NULL /\ strcmp(res.aki, res.ski) # 0 THEN 0
    ELSE IF ta = 0 /\ res.aki = NULL THEN 0
    ELSE IF ta = 0 /\ strcmp(res.aki, res.ski) = 0 THEN 0
    ELSE IF ta # 0 /\ res.aia # NULL THEN 0
    ELSE IF ta # 0 /\ res.crl # NULL THEN 0
    ELSE 1

\* cert_parse_ids without the test that an SKI was found.
cert_parse_ids_noski(res, ta) ==
    IF ta # 0 /\ res.aki # NULL /\ strcmp(res.aki, res.ski) # 0 THEN 0
    ELSE IF ta = 0 /\ res.aki = NULL THEN 0
    ELSE IF ta = 0 /\ strcmp(res.aki, res.ski) = 0 THEN 0
    ELSE IF ta = 0 /\ res.aia = NULL THEN 0
    ELSE IF ta # 0 /\ res.aia # NULL THEN 0
    ELSE IF ta # 0 /\ res.crl # NULL THEN 0
    ELSE 1

\* The checks on SKI, AKI, AIA and CRL: 1 if the record passes.
cert_parse_ids(res, ta) ==
    IF res.ski = NULL THEN 0
    ELSE IF ta # 0 /\ res.aki # NULL /\ strcmp(res.aki, res.ski) # 0 THEN 0
    ELSE IF ta = 0 /\ res.aki = NULL THEN 0
    ELSE IF ta = 0 /\ strcmp(res.aki, res.ski) = 0 THEN 0
    ELSE IF ta = 0 /\ res.aia = NULL THEN 0
    ELSE IF ta # 0 /\ res.aia # NULL THEN 0
    ELSE IF ta # 0 /\ res.crl # NULL THEN 0
    ELSE 1

\* The fields the X.509 helpers fill in after the extension loop: AIA and
\* CRL are fetched for a non-TA only.
cert_parse_fields(res, x, ta) ==
    [res EXCEPT !.aki = x509_get_aki(x, ta),
                !.ski = x509_get_ski(x),
                !.aia = IF ta = 0 THEN x509_get_aia(x) ELSE @,
                !.crl = IF ta = 0 THEN x509_get_crl(x) ELSE @,
                !.expires = x509_get_expire(x),
                !.purpose = x509_get_purpose(x)]

\* der is the certificate; NODER is a null der pointer.
cert_parse_checks(res, sia, der, ta) ==
    CHOOSE out \in
        { IF p.rc = 0 THEN ParseFail
          ELSE IF cert_parse_ids(p.res, ta) = 0 THEN ParseFail
          ELSE ParseRet(1, [p.res EXCEPT !.x509 = der.id], der.id, FALSE) :
          p \in {cert_parse_purpose(cert_parse_fields(res, der, ta), der, sia)} }
        : TRUE

cert_parse_inner(der, ta, ub) ==
    IF ~der.present THEN ParseFail
    ELSE IF ~der.ok THEN ParseFail
    ELSE CHOOSE out \in
             { IF e.rc = UB_CRASH THEN ParseCrash
               ELSE IF e.rc = 0 THEN [ParseFail EXCEPT !.live = e.live]
               ELSE cert_parse_checks(e.res, e.sia, der, ta) :
               e \in {cert_parse_exts(ZeroCert, 0, der.exts, 1, ub)} } : TRUE

cert_parse(der, ub) == cert_parse_inner(der, 0, ub)

ta_parse_anykey(der, pkey, ub) ==
    CHOOSE out \in
        { IF p.ok = 0 THEN p
          ELSE IF pkey = NULL THEN ParseFail
          ELSE IF der.spki = NULL THEN ParseFail
          ELSE p :
          p \in {cert_parse_inner(der, 1, ub)} } : TRUE

\* pkey is the public key of the TAL, NULL if none is given.
ta_parse(der, pkey, ub) ==
    CHOOSE out \in
        { IF p.ok = 0 THEN p
          ELSE IF pkey = NULL THEN ParseFail
          ELSE IF der.spki = NULL THEN ParseFail
          ELSE IF pkey # der.spki THEN ParseFail
          ELSE p :
          p \in {cert_parse_inner(der, 1, ub)} } : TRUE

-----------------------------------------------------------------------------
(* The serializer (cert.c, io.c, ip.c).  The buffer is a sequence of        *)
(* integers: one per scalar written, one per octet of an address, one per   *)
(* character of a string.                                                    *)

\* The integer values of the enumerations.
AfiCode(v) == IF v = AFI_IPV4 THEN 1 ELSE IF v = AFI_IPV6 THEN 2 ELSE 0
AfiOf(n) == IF n = 1 THEN AFI_IPV4 ELSE IF n = 2 THEN AFI_IPV6 ELSE "AFI_0"

IpTypeCode(v) ==
    IF v = CERT_IP_ADDR THEN 0 ELSE IF v = CERT_IP_INHERIT THEN 1
    ELSE IF v = CERT_IP_RANGE THEN 2 ELSE 3
IpTypeOf(n) ==
    IF n = 0 THEN CERT_IP_ADDR ELSE IF n = 1 THEN CERT_IP_INHERIT
    ELSE IF n = 2 THEN CERT_IP_RANGE ELSE "CERT_IP_3"

AsTypeCode(v) ==
    IF v = CERT_AS_ID THEN 0 ELSE IF v = CERT_AS_INHERIT THEN 1
    ELSE IF v = CERT_AS_RANGE THEN 2 ELSE 3
AsTypeOf(n) ==
    IF n = 0 THEN CERT_AS_ID ELSE IF n = 1 THEN CERT_AS_INHERIT
    ELSE IF n = 2 THEN CERT_AS_RANGE ELSE "CERT_AS_3"

PurposeCode(v) ==
    IF v = CERT_PURPOSE_INVALID THEN 0 ELSE IF v = CERT_PURPOSE_CA THEN 1
    ELSE IF v = CERT_PURPOSE_BGPSEC_ROUTER THEN 2 ELSE 3
PurposeOf(n) ==
    IF n = 0 THEN CERT_PURPOSE_INVALID ELSE IF n = 1 THEN CERT_PURPOSE_CA
    ELSE IF n = 2 THEN CERT_PURPOSE_BGPSEC_ROUTER ELSE "CERT_PURPOSE_3"

\* The octets 1..n of an address, and an address from its first octets.
AddrBytes(a, n) == [j \in 1..n |-> a[j]]

\* The number of octets that hold a prefix of the given length.
PREFIX_SIZE(plen) == (plen + ByteBits - 1) \div ByteBits

io_simple_buffer(b, v) == Append(b, v)

\* n octets (or characters) written one after the other.
io_bytes_buffer(b, bytes) == b \o bytes

\* A string is written as its length and its characters, a null pointer as
\* the length 0.
io_str_buffer(b, s) ==
    IF s = NULL THEN io_simple_buffer(b, 0)
    ELSE io_bytes_buffer(io_simple_buffer(b, Len(s)), s)

ip_addr_buffer(b, a) ==
    io_bytes_buffer(io_simple_buffer(b, a.prefixlen),
                    AddrBytes(a.addr, PREFIX_SIZE(a.prefixlen)))

ip_addr_range_buffer(b, r) == ip_addr_buffer(ip_addr_buffer(b, r.min), r.max)

cert_ip_buffer(b, p) ==
    LET ib1 == io_simple_buffer(b, AfiCode(p.afi))
        ib2 == io_simple_buffer(ib1, IpTypeCode(p.type))
        ib3 == IF p.type # CERT_IP_INHERIT
               THEN io_bytes_buffer(
                       io_bytes_buffer(ib2, AddrBytes(p.min, V6Bytes)),
                       AddrBytes(p.max, V6Bytes))
               ELSE ib2
    IN  IF p.type = CERT_IP_RANGE THEN ip_addr_range_buffer(ib3, p.range)
        ELSE IF p.type = CERT_IP_ADDR THEN ip_addr_buffer(ib3, p.ip)
        ELSE ib3

cert_as_buffer(b, p) ==
    LET ab1 == io_simple_buffer(b, AsTypeCode(p.type))
    IN  IF p.type = CERT_AS_RANGE
        THEN io_simple_buffer(io_simple_buffer(ab1, p.range.min), p.range.max)
        ELSE IF p.type = CERT_AS_ID THEN io_simple_buffer(ab1, p.id)
        ELSE ab1

RECURSIVE cert_ips_buffer(_, _, _)
cert_ips_buffer(b, ips, i) ==
    IF i > Len(ips) THEN b
    ELSE cert_ips_buffer(cert_ip_buffer(b, ips[i]), ips, i + 1)

RECURSIVE cert_ases_buffer(_, _, _)
cert_ases_buffer(b, as, i) ==
    IF i > Len(as) THEN b
    ELSE cert_ases_buffer(cert_as_buffer(b, as[i]), as, i + 1)

cert_buffer_notify_first(b, p) ==
    LET b1 == io_simple_buffer(b, p.valid)
        b2 == io_simple_buffer(b1, p.expires)
        b3 == io_simple_buffer(b2, PurposeCode(p.purpose))
        b4 == cert_ips_buffer(io_simple_buffer(b3, Len(p.ips)), p.ips, 1)
        b5 == cert_ases_buffer(io_simple_buffer(b4, Len(p.as)), p.as, 1)
        b6 == io_str_buffer(b5, p.notify)
        b7 == io_str_buffer(b6, p.mft)
        b8 == io_str_buffer(b7, p.repo)
        b9 == io_str_buffer(b8, p.crl)
        b10 == io_str_buffer(b9, p.aia)
        b11 == io_str_buffer(b10, p.aki)
        b12 == io_str_buffer(b11, p.ski)
        b13 == io_str_buffer(b12, p.tal)
    IN  io_str_buffer(b13, p.pubkey)

cert_buffer(b, p) ==
    LET b1 == io_simple_buffer(b, p.valid)
        b2 == io_simple_buffer(b1, p.expires)
        b3 == io_simple_buffer(b2, PurposeCode(p.purpose))
        b4 == cert_ips_buffer(io_simple_buffer(b3, Len(p.ips)), p.ips, 1)
        b5 == cert_ases_buffer(io_simple_buffer(b4, Len(p.as)), p.as, 1)
        b6 == io_str_buffer(b5, p.mft)
        b7 == io_str_buffer(b6, p.notify)
        b8 == io_str_buffer(b7, p.repo)
        b9 == io_str_buffer(b8, p.crl)
        b10 == io_str_buffer(b9, p.aia)
        b11 == io_str_buffer(b10, p.aki)
        b12 == io_str_buffer(b11, p.ski)
        b13 == io_str_buffer(b12, p.tal)
    IN  io_str_buffer(b13, p.pubkey)

\* Reading: each operation takes the buffer and returns the value read with
\* the rest of the buffer; a read past the end yields zeros.
Rd(v, b) == [v |-> v, b |-> b]

Drop(b, n) == IF n >= Len(b) THEN <<>> ELSE SubSeq(b, n + 1, Len(b))

io_read_buf(b) == Rd(CharAt(b, 1), Drop(b, 1))

io_read_bytes(b, n) == Rd([j \in 1..n |-> CharAt(b, j)], Drop(b, n))

\* A length of 0 reads as a null pointer.
io_read_str(b) ==
    LET sz == io_read_buf(b)
    IN  IF sz.v <= 0 THEN Rd(NULL, sz.b) ELSE io_read_bytes(sz.b, sz.v)

ip_addr_read(b) ==
    LET prefixlen == io_read_buf(b)
        addr == io_read_bytes(prefixlen.b, PREFIX_SIZE(prefixlen.v))
    IN  Rd([addr |-> MkAddr(addr.v), prefixlen |-> prefixlen.v], addr.b)

ip_addr_range_read(b) ==
    CHOOSE out \in
        { CHOOSE r \in { Rd([min |-> min.v, max |-> max.v], max.b) :
                         max \in {ip_addr_read(min.b)} } : TRUE :
          min \in {ip_addr_read(b)} } : TRUE

\* cert_ip_read: afi and type, into what the caller calloc'ed.
cert_ip_read_type(b) ==
    LET afi == io_read_buf(b)
        type == io_read_buf(afi.b)
    IN  Rd([ZeroCertIp(AfiOf(afi.v)) EXCEPT !.type = IpTypeOf(type.v)], type.b)

\* cert_ip_read: min and max, of an entry that is not inherited.
cert_ip_read_minmax(b, p) ==
    IF p.type = CERT_IP_INHERIT THEN Rd(p, b)
    ELSE LET min == io_read_bytes(b, V6Bytes)
             max == io_read_bytes(min.b, V6Bytes)
         IN  Rd([p EXCEPT !.min = MkAddr(min.v), !.max = MkAddr(max.v)], max.b)

\* cert_ip_read: the range or the prefix.
cert_ip_read_payload(b, p) ==
    IF p.type = CERT_IP_RANGE
    THEN CHOOSE out \in { Rd([p EXCEPT !.range = r.v], r.b) :
                          r \in {ip_addr_range_read(b)} } : TRUE
    ELSE IF p.type = CERT_IP_ADDR
    THEN CHOOSE out \in { Rd([p EXCEPT !.ip = r.v], r.b) :
                          r \in {ip_addr_read(b)} } : TRUE
    ELSE Rd(p, b)

cert_ip_read(b) ==
    CHOOSE out \in
        { cert_ip_read_payload(m.b, m.v) :
          m \in { cert_ip_read_minmax(t.b, t.v) :
                  t \in {cert_ip_read_type(b)} } } : TRUE

cert_as_read(b) ==
    LET type == io_read_buf(b)
        p == [ZeroCertAs EXCEPT !.type = AsTypeOf(type.v)]
        v1 == io_read_buf(type.b)
        v2 == io_read_buf(v1.b)
    IN  IF p.type = CERT_AS_RANGE
        THEN Rd([p EXCEPT !.range = [min |-> v1.v, max |-> v2.v]], v2.b)
        ELSE IF p.type = CERT_AS_ID THEN Rd([p EXCEPT !.id = v1.v], v1.b)
        ELSE Rd(p, type.b)

RECURSIVE cert_ips_read(_, _, _)
cert_ips_read(b, n, acc) ==
    IF Len(acc) >= n THEN Rd(acc, b)
    ELSE CHOOSE out \in { cert_ips_read(e.b, n, Append(acc, e.v)) :
                          e \in {cert_ip_read(b)} } : TRUE

RECURSIVE cert_ases_read(_, _, _)
cert_ases_read(b, n, acc) ==
    IF Len(acc) >= n THEN Rd(acc, b)
    ELSE CHOOSE out \in { cert_ases_read(e.b, n, Append(acc, e.v)) :
                          e \in {cert_as_read(b)} } : TRUE

\* cert_read: valid, expires and purpose, into a calloc'ed record.
cert_read_scalars(b) ==
    LET valid == io_read_buf(b)
        expires == io_read_buf(valid.b)
        purpose == io_read_buf(expires.b)
    IN  Rd([ZeroCert EXCEPT !.valid = valid.v, !.expires = expires.v,
                            !.purpose = PurposeOf(purpose.v)], purpose.b)

\* cert_read: ipsz and the IP entries.
cert_read_ips(b, p) ==
    CHOOSE out \in
        { CHOOSE r \in { Rd([p EXCEPT !.ips = ips.v], ips.b) :
                         ips \in {cert_ips_read(ipsz.b, ipsz.v, <<>>)} } : TRUE :
          ipsz \in {io_read_buf(b)} } : TRUE

\* cert_read: asz and the AS entries.
cert_read_as(b, p) ==
    CHOOSE out \in
        { CHOOSE r \in { Rd([p EXCEPT !.as = as.v], as.b) :
                         as \in {cert_ases_read(asz.b, asz.v, <<>>)} } : TRUE :
          asz \in {io_read_buf(b)} } : TRUE

\* The strings of struct cert, in the order cert_read reads them.
CertReadStrs ==
    <<"mft", "notify", "repo", "crl", "aia", "aki", "ski", "tal", "pubkey">>

RECURSIVE cert_read_strs(_, _, _)
cert_read_strs(b, p, i) ==
    IF i > Len(CertReadStrs) THEN Rd(p, b)
    ELSE CHOOSE out \in
             { cert_read_strs(r.b, [p EXCEPT ![CertReadStrs[i]] = r.v], i + 1) :
               r \in {io_read_str(b)} } : TRUE

\* The record read, the rest of the buffer, and whether the assertions hold.
cert_read(b) ==
    CHOOSE out \in
        { [cert |-> r.v, b |-> r.b,
           assert |-> /\ (r.v.mft # NULL \/
                          r.v.purpose = CERT_PURPOSE_BGPSEC_ROUTER)
                      /\ r.v.ski # NULL] :
          r \in { cert_read_strs(a.b, a.v, 1) :
                  a \in { cert_read_as(i.b, i.v) :
                          i \in { cert_read_ips(s.b, s.v) :
                                  s \in {cert_read_scalars(b)} } } } } : TRUE

-----------------------------------------------------------------------------
(* The certificates and ROAs handed to the validator. *)

SKI1 == <<11>>
SKI2 == <<12>>
SKI3 == <<13>>

TAL1 == <<21>>
TAL2 == <<22>>

\* AS numbers: "64500", a neighbour, and one nobody holds.
AsnA == 1
AsnB == 2
AsnC == 3

\* 0.0.0.0/0, 10.0.0.0/8, 10.1.0.0/16, 11.0.0.0/8 and an IPv6 prefix.
P0 == IpPrefix(AFI_IPV4, <<0, 0>>, 0)
P10 == IpPrefix(AFI_IPV4, <<1, 0>>, ByteBits)
P10_1 == IpPrefix(AFI_IPV4, <<1, 1>>, 2 * ByteBits)
P11 == IpPrefix(AFI_IPV4, <<2, 0>>, ByteBits)
P6 == IpPrefix(AFI_IPV6, <<1, 0, 0>>, ByteBits)

MkCert(ski, aki, sh) ==
    [ZeroCert EXCEPT !.ski = ski, !.aki = aki, !.purpose = sh.purpose,
                     !.as = sh.as, !.ips = sh.ips]

Shape(purpose, as, ips) == [purpose |-> purpose, as |-> as, ips |-> ips]

\* Resource sets of trust-anchor candidates.
TaShapes ==
    { Shape(CERT_PURPOSE_CA, <<AsId(AsnA)>>, <<P10>>),
      Shape(CERT_PURPOSE_CA, <<AsRange(AsnA, AsnB)>>, <<P0, P6>>),
      Shape(CERT_PURPOSE_CA, <<AsInherit>>, <<P10>>),
      Shape(CERT_PURPOSE_CA, <<AsId(AsnA), AsInherit>>, <<P10>>),
      Shape(CERT_PURPOSE_CA, <<AsId(AsnA)>>, <<P10, IpInherit(AFI_IPV6)>>),
      Shape(CERT_PURPOSE_CA, <<>>, <<IpInherit(AFI_IPV4)>>) }

\* (SKI, TAL) of trust-anchor candidates: one TAL names one trust anchor.
TaKeys == { <<SKI1, TAL1>>, <<SKI3, TAL2>> }

\* Resource sets of non-TA candidates.
CertShapes ==
    { Shape(CERT_PURPOSE_CA, <<AsId(AsnA)>>, <<P10_1>>),
      Shape(CERT_PURPOSE_CA, <<AsId(AsnA)>>, <<P11>>),
      Shape(CERT_PURPOSE_CA, <<AsId(AsnA)>>, <<IpInherit(AFI_IPV4)>>),
      Shape(CERT_PURPOSE_CA, <<AsInherit>>, <<P10>>),
      Shape(CERT_PURPOSE_CA, <<AsInherit>>, <<IpInherit(AFI_IPV4)>>),
      Shape(CERT_PURPOSE_CA, <<AsId(AsnC), AsInherit>>, <<P10_1>>),
      Shape(CERT_PURPOSE_CA, <<>>, <<P10_1, P6>>),
      Shape(CERT_PURPOSE_CA, <<AsRange(AsnA, AsnB)>>, <<>>),
      Shape(CERT_PURPOSE_BGPSEC_ROUTER, <<AsId(AsnA)>>, <<>>),
      Shape(CERT_PURPOSE_BGPSEC_ROUTER, <<AsId(AsnA), AsInherit>>, <<>>),
      Shape(CERT_PURPOSE_BGPSEC_ROUTER, <<AsInherit>>, <<>>) }

\* (SKI, AKI) of non-TA candidates and of ROAs.
CertKeys == { <<SKI2, SKI1>>, <<SKI3, SKI2>> }
RoaKeys == { <<SKI3, SKI2>>, <<SKI2, SKI1>>, <<SKI2, SKI3>> }

\* struct roa_ip of a prefix.
RoaIp(e) == [afi |-> e.afi, addr |-> e.ip, min |-> e.min, max |-> e.max]

RoaIpSets ==
    { <<>>, <<RoaIp(P10_1)>>, <<RoaIp(P11)>>, <<RoaIp(P10_1), RoaIp(P11)>> }

MkRoa(ski, aki, ips) == [ski |-> ski, aki |-> aki, tal |-> NULL, ips |-> ips]

-----------------------------------------------------------------------------
(* The router certificates handed to cert_insert_brks. *)

PK1 == <<31>>
PK2 == <<32>>

\* (SKI, public key) of the router keys.
BrkKeys == { <<SKI1, PK1>>, <<SKI1, PK2>>, <<SKI2, PK1>> }

\* (TAL, expiry) of the certificates.
BrkStamps == { <<TAL1, 1>>, <<TAL2, 2>>, <<TAL1, 2>> }

\* AS resources: a single number, a range over it, a number with the top bit
\* set, the range ending at UINT32_MAX, and a set with an inherit entry (the
\* validator refuses the latter for a router certificate; cert_insert_brks
\* has a branch for it).
BrkAsSets ==
    { <<AsId(AsnA)>>,
      <<AsRange(AsnA, AsnB)>>,
      <<AsId(Pow2(UintBits - 1) + 1), AsInherit>>,
      <<AsRange(UINT32_MAX - 1, UINT32_MAX)>> }

MkRouterCert(k, st, as) ==
    [ZeroCert EXCEPT !.valid = 1, !.purpose = CERT_PURPOSE_BGPSEC_ROUTER,
                     !.ski = k[1], !.pubkey = k[2],
                     !.tal = st[1], !.expires = st[2], !.as = as]

-----------------------------------------------------------------------------
(* The certificates handed to the parser. *)

X509_OBJ == "X509_OBJ"

Ext(nid) ==
    [nid |-> nid, wf |-> TRUE, fams |-> <<>>, ases |-> <<>>, ads |-> <<>>,
     str |-> NULL]
IpExt(fams) == [Ext(NID_sbgp_ipAddrBlock) EXCEPT !.fams = fams]
AsExt(ases) == [Ext(NID_sbgp_autonomousSysNum) EXCEPT !.ases = ases]
SiaExt(ads) == [Ext(NID_sinfo_access) EXCEPT !.ads = ads]
StrExt(nid, s) == [Ext(nid) EXCEPT !.str = s]

BitStr(bs, bits) == [bs |-> bs, bits |-> bits]
IpFam(afi, choice, items) ==
    [wf |-> TRUE, afi |-> afi, choice |-> choice, items |-> items]
IpItemAddr(b) == [type |-> V_ASN1_BIT_STRING, wf |-> TRUE, lo |-> b, hi |-> b]
IpItemRange(lo, hi) ==
    [type |-> V_ASN1_SEQUENCE, wf |-> TRUE, lo |-> lo, hi |-> hi]

AsChoice(tag, choice, items) ==
    [wf |-> TRUE, tag |-> tag, choice |-> choice, items |-> items]
AsItemId(v) == [type |-> V_ASN1_INTEGER, wf |-> TRUE, min |-> v, max |-> v]
AsItemRange(lo, hi) ==
    [type |-> V_ASN1_SEQUENCE, wf |-> TRUE, min |-> lo, max |-> hi]

AccessDesc(oid, d) == [wf |-> TRUE, oid |-> oid, d |-> d, dsz |-> Len(d)]

\* rsync://h/r/  rsync://h/r/m.mft  rsync://h/q/m.mft  https://h/n
\* rsync://h/./  and the locations of the issuer and of its CRL.
URI_REPO == PROTO_RSYNC \o <<104, 47, 114, 47>>
URI_MFT == URI_REPO \o <<109>> \o EXT_MFT
URI_MFT_ELSEWHERE == PROTO_RSYNC \o <<104, 47, 113, 47, 109>> \o EXT_MFT
URI_NOTIFY == PROTO_HTTPS \o <<104, 47, 110>>
URI_DOTDIR == PROTO_RSYNC \o <<104>> \o SLASH_DOT \o <<47>>
URI_AIA == PROTO_RSYNC \o <<104, 47, 97>>
URI_CRL == PROTO_RSYNC \o <<104, 47, 99>>

\* The three locations in every order.
SiaOrders ==
    LET e == [o \in {carepo_oid, mft_oid, notify_oid} |->
                 AccessDesc(o, IF o = carepo_oid THEN URI_REPO
                               ELSE IF o = mft_oid THEN URI_MFT
                               ELSE URI_NOTIFY)]
    IN  { s \in { <<e[a], e[b], e[c]>> : a, b, c \in DOMAIN e } :
              s[1] # s[2] /\ s[1] # s[3] /\ s[2] # s[3] }

\* A second caRepository, and a second rpkiNotify, after a complete set.
SiaTwice ==
    { << AccessDesc(carepo_oid, URI_REPO), AccessDesc(mft_oid, URI_MFT),
         AccessDesc(carepo_oid, URI_REPO) >>,
      << AccessDesc(notify_oid, URI_NOTIFY), AccessDesc(carepo_oid, URI_REPO),
         AccessDesc(mft_oid, URI_MFT), AccessDesc(notify_oid, URI_NOTIFY) >> }

\* subjectInfoAccess payloads: complete; without rpkiNotify; rpkiManifest
\* alone; an unknown method alone; caRepository not a prefix of the
\* manifest; rpkiManifest twice; a caRepository with "/."; caRepository
\* alone; caRepository and rpkiNotify without rpkiManifest.
SiaBodies ==
    { << AccessDesc(carepo_oid, URI_REPO), AccessDesc(mft_oid, URI_MFT),
         AccessDesc(notify_oid, URI_NOTIFY) >>,
      << AccessDesc(carepo_oid, URI_REPO), AccessDesc(mft_oid, URI_MFT) >>,
      << AccessDesc(mft_oid, URI_MFT) >>,
      << AccessDesc("1.3.6.1.5.5.7.48.2", URI_AIA) >>,
      << AccessDesc(carepo_oid, URI_REPO),
         AccessDesc(mft_oid, URI_MFT_ELSEWHERE) >>,
      << AccessDesc(carepo_oid, URI_REPO), AccessDesc(mft_oid, URI_MFT),
         AccessDesc(mft_oid, URI_MFT) >>,
      << AccessDesc(carepo_oid, URI_DOTDIR), AccessDesc(mft_oid, URI_MFT) >>,
      << AccessDesc(carepo_oid, URI_REPO) >>,
      << AccessDesc(carepo_oid, URI_REPO),
         AccessDesc(notify_oid, URI_NOTIFY) >> }
    \cup SiaOrders \cup SiaTwice

SiaFull ==
    << AccessDesc(carepo_oid, URI_REPO), AccessDesc(mft_oid, URI_MFT),
       AccessDesc(notify_oid, URI_NOTIFY) >>

\* sbgp-ipAddrBlock payloads: a prefix; inherit; a range and an IPv6
\* inherit; two overlapping prefixes; a reversed range.
B10 == BitStr(<<1>>, ByteBits)
B10_1 == BitStr(<<1, 1>>, 2 * ByteBits)
B11 == BitStr(<<2>>, ByteBits)

IpBodies ==
    { << IpFam(AFI_IPV4, V_ASN1_SEQUENCE, <<IpItemAddr(B10)>>) >>,
      << IpFam(AFI_IPV4, V_ASN1_NULL, <<>>) >>,
      << IpFam(AFI_IPV4, V_ASN1_SEQUENCE, <<IpItemRange(B10, B11)>>),
         IpFam(AFI_IPV6, V_ASN1_NULL, <<>>) >>,
      << IpFam(AFI_IPV4, V_ASN1_SEQUENCE,
               <<IpItemAddr(B10), IpItemAddr(B10_1)>>) >>,
      << IpFam(AFI_IPV4, V_ASN1_SEQUENCE, <<IpItemRange(B11, B10)>>) >> }

IpOne == << IpFam(AFI_IPV4, V_ASN1_SEQUENCE, <<IpItemAddr(B10)>>) >>

\* sbgp-autonomousSysNum payloads: an id; inherit; an rdi, then a range up
\* to UINT32_MAX and an id; the reserved id 0; a singular range; a range
\* whose upper end does not fit uint32_t; a range out of order.
AsBodies ==
    { << AsChoice(ASID_TYPE_ASNUM, V_ASN1_SEQUENCE, <<AsItemId(AsnA)>>) >>,
      << AsChoice(ASID_TYPE_ASNUM, V_ASN1_NULL, <<>>) >>,
      << AsChoice(ASID_TYPE_RDI, V_ASN1_NULL, <<>>),
         AsChoice(ASID_TYPE_ASNUM, V_ASN1_SEQUENCE,
                  <<AsItemRange(UINT32_MAX - 1, UINT32_MAX), AsItemId(AsnA)>>) >>,
      << AsChoice(ASID_TYPE_ASNUM, V_ASN1_SEQUENCE, <<AsItemId(0)>>) >>,
      << AsChoice(ASID_TYPE_ASNUM, V_ASN1_SEQUENCE,
                  <<AsItemRange(AsnB, AsnB)>>) >>,
      << AsChoice(ASID_TYPE_ASNUM, V_ASN1_SEQUENCE,
                  <<AsItemId(AsnA), AsItemRange(AsnB, UINT32_MAX + 1)>>) >>,
      << AsChoice(ASID_TYPE_ASNUM, V_ASN1_SEQUENCE,
                  <<AsItemRange(AsnB, AsnA)>>) >> }

AsOne == << AsChoice(ASID_TYPE_ASNUM, V_ASN1_SEQUENCE, <<AsItemId(AsnA)>>) >>

\* The key-identifier, AIA and CRL extensions of a certificate; a null
\* string stands for an absent extension.
IdExts(aki, ski, aia, crl) ==
    (IF aki = NULL THEN <<>> ELSE <<StrExt(NID_authority_key_identifier, aki)>>)
    \o (IF ski = NULL THEN <<>> ELSE <<StrExt(NID_subject_key_identifier, ski)>>)
    \o (IF aia = NULL THEN <<>> ELSE <<StrExt(NID_info_access, aia)>>)
    \o (IF crl = NULL THEN <<>> ELSE <<StrExt(NID_crl_distribution_points, crl)>>)

MkX509(exts, purpose, spki) ==
    [present |-> TRUE, ok |-> TRUE, id |-> X509_OBJ, exts |-> exts,
     notAfter |-> 2, purpose |-> purpose, spki |-> spki]

\* A null der pointer, and bytes that do not decode.
NODER == [MkX509(<<>>, CERT_PURPOSE_INVALID, NULL) EXCEPT !.present = FALSE]
BADDER == [MkX509(<<>>, CERT_PURPOSE_INVALID, NULL) EXCEPT !.ok = FALSE]

\* Certificates that differ in AKI, SKI, AIA and CRL.
X509sById ==
    { MkX509(<<IpExt(IpOne), AsExt(AsOne), SiaExt(SiaFull)>>
                 \o IdExts(aki, ski, aia, crl)
                 \o <<Ext(NID_ext_key_usage), Ext(NID_undef)>>,
             CERT_PURPOSE_CA, PK1) :
        aki \in {NULL, SKI1, SKI2}, ski \in {NULL, SKI1},
        aia \in {NULL, URI_AIA}, crl \in {NULL, URI_CRL} }

\* Certificates that differ in their resources.
X509sByRes ==
    { MkX509((IF ip = <<>> THEN <<>> ELSE <<IpExt(ip)>>)
                 \o (IF as = <<>> THEN <<>> ELSE <<AsExt(as)>>)
                 \o <<SiaExt(SiaFull)>>
                 \o IdExts(aki, SKI1, URI_AIA, URI_CRL),
             CERT_PURPOSE_CA, PK1) :
        ip \in IpBodies \cup {<<>>}, as \in AsBodies \cup {<<>>},
        aki \in {SKI1, SKI2} }

\* Certificates that differ in purpose, SIA and public key.
X509sByPurpose ==
    { MkX509((IF ip = <<>> THEN <<>> ELSE <<IpExt(ip)>>)
                 \o <<AsExt(AsOne)>>
                 \o (IF sia = <<>> THEN <<>> ELSE <<SiaExt(sia)>>)
                 \o IdExts(SKI2, SKI1, URI_AIA, NULL),
             purpose, spki) :
        ip \in {<<>>, IpOne}, sia \in SiaBodies \cup {<<>>},
        purpose \in {CERT_PURPOSE_INVALID, CERT_PURPOSE_CA,
                     CERT_PURPOSE_BGPSEC_ROUTER},
        spki \in {NULL, PK1} }

\* Self-signed certificates that differ in their public key.
X509sByKey ==
    { MkX509(<<IpExt(IpOne), AsExt(AsOne), SiaExt(SiaFull)>>
                 \o IdExts(aki, SKI1, NULL, NULL),
             CERT_PURPOSE_CA, spki) :
        aki \in {NULL, SKI1}, spki \in {NULL, PK1, PK2} }

\* 11.0.0.0/8 alone, the AS number of a neighbour alone, rpkiNotify alone.
IpTwo == << IpFam(AFI_IPV4, V_ASN1_SEQUENCE, <<IpItemAddr(B11)>>) >>
AsTwo == << AsChoice(ASID_TYPE_ASNUM, V_ASN1_SEQUENCE, <<AsItemId(AsnB)>>) >>
SiaCore == << AccessDesc(carepo_oid, URI_REPO), AccessDesc(mft_oid, URI_MFT) >>
SiaNotify == << AccessDesc(notify_oid, URI_NOTIFY) >>

\* Certificates that carry an extension twice: the second one with other
\* resources or with the same, a second subjectInfoAccess that brings a
\* field not yet set or one already set.
X509sTwice ==
    { MkX509(exts \o IdExts(SKI2, SKI1, URI_AIA, NULL), CERT_PURPOSE_CA, PK1) :
        exts \in
          { <<IpExt(IpOne), IpExt(IpTwo), AsExt(AsOne), SiaExt(SiaFull)>>,
            <<IpExt(IpOne), AsExt(AsOne), IpExt(IpOne), SiaExt(SiaFull)>>,
            <<IpExt(IpOne), AsExt(AsOne), AsExt(AsTwo), SiaExt(SiaFull)>>,
            <<AsExt(AsOne), IpExt(IpOne), AsExt(AsOne), SiaExt(SiaFull)>>,
            <<IpExt(IpOne), AsExt(AsOne), SiaExt(SiaCore), SiaExt(SiaNotify)>>,
            <<IpExt(IpOne), AsExt(AsOne), SiaExt(SiaFull), SiaExt(SiaNotify)>>,
            <<IpExt(IpOne), AsExt(AsOne), SiaExt(SiaFull), SiaExt(SiaCore)>> } }

\* Certificates whose subjectInfoAccess is an empty sequence.
X509sEmptySia ==
    { MkX509(<<AsExt(AsOne), SiaExt(<<>>)>>
                 \o IdExts(SKI2, SKI1, URI_AIA, NULL),
             purpose, PK1) :
        purpose \in {CERT_PURPOSE_CA, CERT_PURPOSE_BGPSEC_ROUTER} }

X509s ==
    X509sById \cup X509sByRes \cup X509sByPurpose \cup X509sByKey
        \cup X509sTwice \cup X509sEmptySia \cup {NODER, BADDER}

\* The public key of the TAL: none, the certificate's, another.
TalKeys == {NULL, PK1, PK2}

-----------------------------------------------------------------------------
(* The state of the processes. *)

vvars == <<auths, last>>
bvars == <<build, brks, brkcerts, brklog, brkrun>>
pvars == <<px, wire, sent, rd>>
lvars == <<accres, app, call>>
vars == <<vvars, bvars, pvars, lvars>>

\* No validator call yet, an empty authority tree.
InitValidator ==
    /\ auths = <<>>
    /\ last = [op |-> "none", arg |-> NULL, ret |-> 0, out |-> NULL]

\* An empty BRK tree, cert_insert_brks not running.
InitBrks ==
    /\ brks = {}
    /\ brkcerts = <<>>
    /\ brklog = <<>>
    /\ brkrun = [busy |-> FALSE, i |-> 0, inner |-> FALSE, asid |-> 0, n |-> 0]

\* No file parsed yet, an empty pipe.
PxIdle == [op |-> "none", der |-> NODER, pkey |-> NULL, ret |-> ParseFail]
RdIdle == [done |-> FALSE, cert |-> ZeroCert, assert |-> TRUE]

InitParser ==
    /\ px = PxIdle
    /\ wire = <<>>
    /\ sent = ZeroCert
    /\ rd = RdIdle

\* A calloc'ed result with nothing appended, no call made yet.
AppIdle == [op |-> "none", rc |-> 1, before |-> ZeroCert]
CallIdle == [op |-> "none", s |-> <<>>, sz |-> 0, proto |-> NULL, ret |-> 0]

InitCalls ==
    /\ accres = ZeroCert
    /\ app = AppIdle
    /\ call = CallIdle

Init ==
    /\ InitValidator
    /\ InitBrks
    /\ InitParser
    /\ InitCalls
    /\ build = "LP64"

-----------------------------------------------------------------------------
(* The validator process: one action per entry point, with the caller's    *)
(* insertion of an accepted certificate.                                   *)

\* The arena never outgrows MaxAuths.
Room(ok) == ok = 0 \/ Len(auths) < MaxAuths

ValidTa ==
    \E k \in TaKeys, sh \in TaShapes :
        LET cert == MkCert(k[1], NULL, sh)
            tal == k[2]
            ok == valid_ta(auths, cert)
        IN  /\ Room(ok)
            /\ last' = [op |-> "valid_ta", arg |-> cert, ret |-> ok, out |-> tal]
            /\ auths' = IF ok = 1 THEN auth_insert(auths, cert, NOAUTH, tal)
                        ELSE auths
            /\ UNCHANGED <<bvars, pvars, lvars>>

ValidCert ==
    \E k \in CertKeys, sh \in CertShapes :
        LET cert == MkCert(k[1], k[2], sh)
            ok == valid_cert(auths, cert)
            a == valid_ski_aki(auths, cert.ski, cert.aki)
        IN  /\ Room(ok)
            /\ last' = [op |-> "valid_cert", arg |-> cert, ret |-> ok, out |-> NULL]
            /\ auths' = IF ok = 1 THEN auth_insert(auths, cert, a, auths[a].tal)
                        ELSE auths
            /\ UNCHANGED <<bvars, pvars, lvars>>

ValidRoa ==
    \E k \in RoaKeys, ips \in RoaIpSets :
        LET roa == MkRoa(k[1], k[2], ips)
            r == valid_roa(auths, roa)
        IN  /\ last' = [op |-> "valid_roa", arg |-> roa, ret |-> r.ret,
                        out |-> r.roa.tal]
            /\ auths' = auths
            /\ UNCHANGED <<bvars, pvars, lvars>>

Next == ValidTa \/ ValidCert \/ ValidRoa

Spec == Init /\ [][Next]_vars

-----------------------------------------------------------------------------
(* cert_insert_brks, one action per pass through a loop condition. *)

BrkIdle == [busy |-> FALSE, i |-> 0, inner |-> FALSE, asid |-> 0, n |-> 0]

\* The certificate cert_insert_brks is working on.
BrkCert == brkcerts[Len(brkcerts)]

\* Entry: i = 0.
BrkBegin ==
    /\ ~brkrun.busy
    /\ Len(brkcerts) < MaxBrkCerts
    /\ \E k \in BrkKeys, st \in BrkStamps, as \in BrkAsSets :
           brkcerts' = Append(brkcerts, MkRouterCert(k, st, as))
    /\ brkrun' = [BrkIdle EXCEPT !.busy = TRUE, !.i = 1]
    /\ UNCHANGED <<vvars, pvars, lvars, build, brks, brklog>>

\* The call insert_brk(tree, cert, v), recorded in the history.
BrkInsert(v) ==
    /\ Len(brklog) < MaxBrkLog
    /\ brks' = insert_brk(brks, BrkCert, ToInt(v))
    /\ brklog' = Append(brklog, MkBrk(BrkCert, ToInt(v)))

\* case CERT_AS_ID
BrkId ==
    /\ brkrun.busy
    /\ brkrun.i <= Len(BrkCert.as)
    /\ BrkCert.as[brkrun.i].type = CERT_AS_ID
    /\ BrkInsert(BrkCert.as[brkrun.i].id)
    /\ brkrun' = [brkrun EXCEPT !.i = @ + 1, !.n = @ + 1]
    /\ UNCHANGED <<vvars, pvars, lvars, build, brkcerts>>

\* case CERT_AS_RANGE: asid starts at range.min; while asid <= range.max,
\* insert and increment asid in the width of size_t.
BrkRange ==
    /\ brkrun.busy
    /\ brkrun.i <= Len(BrkCert.as)
    /\ BrkCert.as[brkrun.i].type = CERT_AS_RANGE
    /\ LET e == BrkCert.as[brkrun.i]
           asid == IF brkrun.inner THEN brkrun.asid ELSE e.range.min
       IN  IF asid <= e.range.max
           THEN /\ BrkInsert(asid)
                /\ brkrun' = [brkrun EXCEPT
                                 !.inner = TRUE,
                                 !.asid = (asid + 1) % Pow2(SizeBits(build)),
                                 !.n = @ + 1]
           ELSE /\ brkrun' = [brkrun EXCEPT !.inner = FALSE, !.asid = 0,
                                            !.i = @ + 1]
                /\ UNCHANGED <<brks, brklog>>
    /\ UNCHANGED <<vvars, pvars, lvars, build, brkcerts>>

\* default: warn and continue.
BrkOther ==
    /\ brkrun.busy
    /\ brkrun.i <= Len(BrkCert.as)
    /\ BrkCert.as[brkrun.i].type \notin {CERT_AS_ID, CERT_AS_RANGE}
    /\ brkrun' = [brkrun EXCEPT !.i = @ + 1]
    /\ UNCHANGED <<vvars, pvars, lvars, build, brks, brkcerts, brklog>>

\* i = asz: return.
BrkReturn ==
    /\ brkrun.busy
    /\ brkrun.i > Len(BrkCert.as)
    /\ brkrun' = BrkIdle
    /\ UNCHANGED <<vvars, pvars, lvars, build, brks, brkcerts, brklog>>

InitBrk ==
    /\ InitValidator
    /\ InitBrks
    /\ InitParser
    /\ InitCalls
    /\ build \in Builds

NextBrk == BrkBegin \/ BrkId \/ BrkRange \/ BrkOther \/ BrkReturn

SpecBrk == InitBrk /\ [][NextBrk]_vars

-----------------------------------------------------------------------------
(* The parser process and the pipe to the validator: one entity at a time   *)
(* is parsed, written with cert_buffer, read with cert_read and released.   *)

\* A certificate file is parsed with cert_parse.
CertParse ==
    /\ px.op = "none"
    /\ \E der \in X509s, ub \in UbOutcomes :
           px' = [op |-> "cert_parse", der |-> der, pkey |-> NULL,
                  ret |-> cert_parse(der, ub)]
    /\ UNCHANGED <<vvars, bvars, lvars, wire, sent, rd>>

\* A trust-anchor file is parsed with ta_parse.
TaParse ==
    /\ px.op = "none"
    /\ \E der \in X509s, pkey \in TalKeys, ub \in UbOutcomes :
           px' = [op |-> "ta_parse", der |-> der, pkey |-> pkey,
                  ret |-> ta_parse(der, pkey, ub)]
    /\ UNCHANGED <<vvars, bvars, lvars, wire, sent, rd>>

\* The record is written to the pipe, as parsed or with the validator's
\* stamp (valid and tal) on it.
CertBuffer ==
    /\ px.ret.ok = 1
    /\ wire = <<>> /\ ~rd.done
    /\ \E c \in {px.ret.cert,
                 [px.ret.cert EXCEPT !.valid = 1, !.tal = TAL1]} :
           /\ sent' = c
           /\ wire' = cert_buffer(<<>>, c)
    /\ UNCHANGED <<vvars, bvars, lvars, px, rd>>

\* The record is read from the pipe.
CertRead ==
    /\ wire # <<>>
    /\ \E r \in {cert_read(wire)} :
           /\ rd' = [done |-> TRUE, cert |-> r.cert, assert |-> r.assert]
           /\ wire' = r.b
    /\ UNCHANGED <<vvars, bvars, lvars, px, sent>>

\* The entity is done with: cert_free, and on to the next file.
EntityDone ==
    /\ px.op # "none"
    /\ wire = <<>>
    /\ px' = PxIdle
    /\ sent' = ZeroCert
    /\ rd' = RdIdle
    /\ UNCHANGED <<vvars, bvars, lvars, wire>>

NextParse == CertParse \/ TaParse \/ CertBuffer \/ CertRead \/ EntityDone

SpecParse == Init /\ [][NextParse]_vars

-----------------------------------------------------------------------------
(* The resource accumulator of one certificate: the entries the IP-block   *)
(* and AS-number parsers hand to append_ip and append_as, in any order.    *)

MaxIps == 3
MaxAs == 2

\* 10.1.0.0/16 -- 11.0.0.0/8 as an IPAddressRange, and a second IPv6 prefix.
R10_11 ==
    ip_cert_compose_ranges(
        [ZeroCertIp(AFI_IPV4) EXCEPT
            !.type = CERT_IP_RANGE,
            !.range = [min |-> [addr |-> MkAddr(<<1, 1>>),
                                prefixlen |-> 2 * ByteBits],
                       max |-> [addr |-> MkAddr(<<2, 0>>),
                                prefixlen |-> ByteBits]]])
P6b == IpPrefix(AFI_IPV6, <<1, 2, 0>>, 2 * ByteBits)

\* Entries as sbgp_addr, sbgp_addr_range and sbgp_ipaddrfam compose them.
AppendIps ==
    { P0, P10, P10_1, P11, R10_11, P6, P6b,
      IpInherit(AFI_IPV4), IpInherit(AFI_IPV6) }

\* Entries as sbgp_asid, sbgp_asrange and sbgp_asnum compose them.
AppendAses ==
    { AsId(AsnA), AsId(AsnB), AsId(AsnC), AsRange(AsnA, AsnB),
      AsRange(AsnB, AsnC), AsInherit }

AppendIp ==
    /\ Len(accres.ips) < MaxIps
    /\ \E ip \in AppendIps :
        \E r \in {append_ip(accres, ip)} :
            /\ accres' = r.res
            /\ app' = [op |-> "append_ip", rc |-> r.rc, before |-> accres,
                       ent |-> ip]
    /\ UNCHANGED <<vvars, bvars, pvars, call>>

AppendAs ==
    /\ Len(accres.as) < MaxAs
    /\ \E as \in AppendAses :
        \E r \in {append_as(accres, as)} :
            /\ accres' = r.res
            /\ app' = [op |-> "append_as", rc |-> r.rc, before |-> accres,
                       ent |-> as]
    /\ UNCHANGED <<vvars, bvars, pvars, call>>

NextAppend == AppendIp \/ AppendAs

SpecAppend == Init /\ [][NextAppend]_vars

-----------------------------------------------------------------------------
(* The tests of names and URIs, called with strings of a small alphabet. *)

MaxStem == 3

\* All strings of at most n characters of the set cs.
Strings(cs, n) == UNION { [1..k -> cs] : k \in 0..n }

\* 'a', 'A', '1', '.', '-', '_', and three characters no name may hold:
\* '/', ' ' and a byte above ASCII.
StemChars == {97, 65, 49, 46, 45, 95, 47, 32, 200}

\* The four extensions in lower, upper and mixed case, and near misses:
\* ".mft", ".txt", ".ce", "cer", "xcer", ".cerx", ".cer.".
NameEnds ==
    { EXT_CER, EXT_CRL, EXT_GBR, EXT_ROA,
      <<46, 67, 69, 82>>, <<46, 67, 82, 76>>, <<46, 71, 66, 82>>,
      <<46, 82, 79, 65>>, <<46, 99, 69, 114>>, <<46, 82, 111, 97>>,
      EXT_MFT, <<46, 116, 120, 116>>, <<46, 99, 101>>, <<99, 101, 114>>,
      <<120, 99, 101, 114>>, <<46, 99, 101, 114, 120>>,
      <<46, 99, 101, 114, 46>> }

\* "a.cer", "A.CER", "a-b_c.ROA", ".cer", "a.b.cer", "a.txt"
NAME_a_cer == <<97, 46, 99, 101, 114>>
NAME_A_CER == <<65, 46, 67, 69, 82>>
NAME_a_b_c_ROA == <<97, 45, 98, 95, 99, 46, 82, 79, 65>>
NAME_cer == <<46, 99, 101, 114>>
NAME_a_b_cer == <<97, 46, 98, 46, 99, 101, 114>>
NAME_a_txt == <<97, 46, 116, 120, 116>>

FileNames ==
    { stem \o e : stem \in Strings(StemChars, MaxStem), e \in NameEnds }
        \cup { NAME_a_cer, NAME_A_CER, NAME_a_b_c_ROA, NAME_cer,
               NAME_a_b_cer, NAME_a_txt }

ValidFilename ==
    /\ call.op = "none"
    /\ \E fn \in FileNames :
        call' = [op |-> "valid_filename", s |-> fn, sz |-> Len(fn),
                 proto |-> NULL, ret |-> valid_filename(fn)]
    /\ UNCHANGED <<vvars, bvars, pvars, accres, app>>

\* "rsync://", "RSYNC://", "https://", "http://", "rsync:/" and nothing.
UriHeads ==
    { PROTO_RSYNC, <<82, 83, 89, 78, 67, 58, 47, 47>>, PROTO_HTTPS,
      <<104, 116, 116, 112, 58, 47, 47>>, <<114, 115, 121, 110, 99, 58, 47>>,
      <<>> }

\* 'x', '/', '.', and two characters no URI may hold: ' ' and a byte above
\* ASCII.
UriChars == {120, 47, 46, 32, 200}

\* "rsync://x/y.mft", "https://x/./y", "http://x"
URI_rsync_x_y_mft ==
    PROTO_RSYNC \o <<120, 47, 121>> \o EXT_MFT
URI_https_x_dot_y == PROTO_HTTPS \o <<120, 47, 46, 47, 121>>
URI_http_x == <<104, 116, 116, 112, 58, 47, 47, 120>>

\* The NUL-terminated buffers a URI is looked for in.
UriBufs ==
    { h \o t : h \in UriHeads, t \in Strings(UriChars, MaxStem) }
        \cup { URI_rsync_x_y_mft, URI_https_x_dot_y, URI_http_x }

\* valid_uri on the first usz bytes of a buffer; usz may stop short of the
\* terminating NUL or count it in.
ValidUri ==
    /\ call.op = "none"
    /\ \E uri \in UriBufs, proto \in {NULL, PROTO_RSYNC, PROTO_HTTPS} :
        \E usz \in 0..(Len(uri) + 1) :
            call' = [op |-> "valid_uri", s |-> uri, sz |-> usz,
                     proto |-> proto, ret |-> valid_uri(uri, usz, proto)]
    /\ UNCHANGED <<vvars, bvars, pvars, accres, app>>

\* The caller has taken the verdict.
CallReturn ==
    /\ call.op # "none"
    /\ call' = CallIdle
    /\ UNCHANGED <<vvars, bvars, pvars, accres, app>>

NextCall == ValidFilename \/ ValidUri \/ CallReturn

SpecCall == Init /\ [][NextCall]_vars

-----------------------------------------------------------------------------
(* Vocabulary of the claims about the validator. *)

\* The tree as the last call found it: an accepted certificate was appended.
PreTree ==
    IF last.op \in {"valid_ta", "valid_cert"} /\ last.ret = 1
    THEN SubSeq(auths, 1, Len(auths) - 1)
    ELSE auths

InTree(tree, ski) == \E i \in 1..Len(tree) : tree[i].cert.ski = ski

\* The k-th authority on the chain that starts at a (k = 0 is a itself).
RECURSIVE ChainAt(_, _, _)
ChainAt(tree, a, k) ==
    IF k = 0 \/ a = NOAUTH THEN a ELSE ChainAt(tree, tree[a].parent, k - 1)

\* The trust anchor a chain ends in.
RECURSIVE ChainRoot(_, _)
ChainRoot(tree, a) ==
    IF tree[a].parent = NOAUTH THEN a ELSE ChainRoot(tree, tree[a].parent)

\* A non-inheriting entry of the set contains [min, max].
AsCovers(as, min, max) ==
    \E i \in 1..Len(as) :
        as[i].type # CERT_AS_INHERIT /\ AsMin(as[i]) <= min /\ max <= AsMax(as[i])

IpCovers(ips, afi, min, max) ==
    \E i \in 1..Len(ips) :
        /\ ips[i].afi = afi
        /\ ips[i].type # CERT_IP_INHERIT
        /\ memcmp(ips[i].min, min, AfiSize(afi)) <= 0
        /\ memcmp(ips[i].max, max, AfiSize(afi)) >= 0

\* A present, non-inheriting set that does not contain [min, max].
AsRefuses(as, min, max) ==
    /\ Len(as) > 0
    /\ \A i \in 1..Len(as) : as[i].type # CERT_AS_INHERIT
    /\ ~AsCovers(as, min, max)

IpRefuses(ips, afi, min, max) ==
    /\ \E i \in 1..Len(ips) : ips[i].afi = afi
    /\ \A i \in 1..Len(ips) : ips[i].afi = afi => ips[i].type # CERT_IP_INHERIT
    /\ ~IpCovers(ips, afi, min, max)

\* Some authority on the chain from a covers, and none nearer refuses.
AsChainCovered(tree, a, min, max) ==
    \E k \in 0..Len(tree) :
        /\ ChainAt(tree, a, k) # NOAUTH
        /\ AsCovers(tree[ChainAt(tree, a, k)].cert.as, min, max)
        /\ \A j \in 0..(k - 1) :
               ~AsRefuses(tree[ChainAt(tree, a, j)].cert.as, min, max)

IpChainCovered(tree, a, afi, min, max) ==
    \E k \in 0..Len(tree) :
        /\ ChainAt(tree, a, k) # NOAUTH
        /\ IpCovers(tree[ChainAt(tree, a, k)].cert.ips, afi, min, max)
        /\ \A j \in 0..(k - 1) :
               ~IpRefuses(tree[ChainAt(tree, a, j)].cert.ips, afi, min, max)

HasAsInherit(cert) == \E i \in 1..Len(cert.as) : cert.as[i].type = CERT_AS_INHERIT
HasIpInherit(cert) == \E i \in 1..Len(cert.ips) : cert.ips[i].type = CERT_IP_INHERIT

\* The certificate without its inherit entries.
StripAsInherit(cert) ==
    [cert EXCEPT !.as = SelectSeq(cert.as, LAMBDA e : e.type # CERT_AS_INHERIT)]
StripIpInherit(cert) ==
    [cert EXCEPT !.ips = SelectSeq(cert.ips, LAMBDA e : e.type # CERT_IP_INHERIT)]

-----------------------------------------------------------------------------
\* C1: every non-TA authority of the tree has each of its non-inherit AS and
\* IP entries covered by an ancestor's non-inheriting set of that kind (and
\* family), with no nearer ancestor refusing the entry.
C1_ChainCoverage ==
    \A c \in 1..Len(auths) :
        auths[c].parent # NOAUTH =>
            /\ \A i \in 1..Len(auths[c].cert.as) :
                   LET e == auths[c].cert.as[i]
                   IN  e.type # CERT_AS_INHERIT =>
                           AsChainCovered(auths, auths[c].parent, AsMin(e), AsMax(e))
            /\ \A i \in 1..Len(auths[c].cert.ips) :
                   LET e == auths[c].cert.ips[i]
                   IN  e.type # CERT_IP_INHERIT =>
                           IpChainCovered(auths, auths[c].parent, e.afi, e.min, e.max)

\* A grandchild whose address block is covered by the trust anchor past an
\* inheriting parent.
C1_Witness ==
    \E c \in 1..Len(auths) :
        /\ auths[c].parent # NOAUTH
        /\ auths[auths[c].parent].parent # NOAUTH
        /\ HasIpInherit(auths[auths[c].parent].cert)
        /\ \E i \in 1..Len(auths[c].cert.ips) :
               auths[c].cert.ips[i].type = CERT_IP_ADDR

-----------------------------------------------------------------------------
\* C2: an inherit IP entry of the candidate is never by itself a reason for
\* valid_cert to reject: the verdict is that of the candidate without its
\* inherit IP entries (so the child with IP inherit and AS {64500} under the
\* trust anchor holding 10.0.0.0/8 and AS {64500} passes).
C2_InheritIpNeverRejects ==
    last.op = "valid_cert" =>
        last.ret = valid_cert(PreTree, StripIpInherit(last.arg))

-----------------------------------------------------------------------------
\* C3: valid_ta accepts exactly when no AS entry (at any index) and no IP
\* entry is inherit and the SKI is not yet a key of the tree.
C3_ValidTaIff ==
    last.op = "valid_ta" =>
        (last.ret = 1 <=> /\ ~HasAsInherit(last.arg)
                          /\ ~HasIpInherit(last.arg)
                          /\ ~InTree(PreTree, last.arg.ski))

-----------------------------------------------------------------------------
\* C4: no two authorities of the tree have the same SKI, and a candidate
\* (trust anchor, certificate or ROA) whose SKI is already in the tree is
\* rejected.
C4_SkiUnique ==
    /\ \A i, j \in 1..Len(auths) :
           auths[i].cert.ski = auths[j].cert.ski => i = j
    /\ (last.op # "none" /\ InTree(PreTree, last.arg.ski)) => last.ret = 0

\* A second trust anchor, acceptable but for its SKI, has been rejected.
C4_Witness ==
    /\ last.op = "valid_ta"
    /\ last.ret = 0
    /\ InTree(auths, last.arg.ski)
    /\ valid_ta(<<>>, last.arg) = 1

-----------------------------------------------------------------------------
\* C5: in valid_cert an inherit AS entry is skipped for a CA certificate (the
\* verdict is that of the certificate without it) and makes the verdict false
\* for a BGPsec router certificate, wherever the entry stands.
C5_AsInheritByPurpose ==
    last.op = "valid_cert" =>
        /\ (last.arg.purpose = CERT_PURPOSE_BGPSEC_ROUTER /\ HasAsInherit(last.arg))
               => last.ret = 0
        /\ last.arg.purpose = CERT_PURPOSE_CA
               => last.ret = valid_cert(PreTree, StripAsInherit(last.arg))

\* A router certificate rejected for an inherit entry that follows a covered
\* AS number, under a CA that was accepted with an inherit AS entry.
C5_Witness ==
    /\ last.op = "valid_cert"
    /\ last.ret = 0
    /\ last.arg.purpose = CERT_PURPOSE_BGPSEC_ROUTER
    /\ Len(last.arg.as) = 2
    /\ last.arg.as[2].type = CERT_AS_INHERIT
    /\ valid_cert(auths, StripAsInherit(last.arg)) = 1
    /\ \E i \in 1..Len(auths) :
           /\ auths[i].parent # NOAUTH
           /\ auths[i].cert.purpose = CERT_PURPOSE_CA
           /\ HasAsInherit(auths[i].cert)

-----------------------------------------------------------------------------
\* C6: valid_roa accepts exactly when the ROA's SKI is new, its AKI names an
\* authority of the tree and every prefix is covered by the chain from that
\* authority; an accepted ROA carries the TAL of that authority, which is
\* the TAL of the chain's trust anchor.
C6_ValidRoa ==
    last.op = "valid_roa" =>
        LET roa == last.arg
            a == auth_find(auths, roa.aki)
        IN  /\ last.ret = 1 <=>
                   /\ ~InTree(auths, roa.ski)
                   /\ InTree(auths, roa.aki)
                   /\ \A i \in 1..Len(roa.ips) :
                          IpChainCovered(auths, a, roa.ips[i].afi,
                                         roa.ips[i].min, roa.ips[i].max)
            /\ last.ret = 1 =>
                   /\ last.out = auths[a].tal
                   /\ last.out = auths[ChainRoot(auths, a)].tal

\* A ROA with a prefix, accepted under a CA that is not a trust anchor.
C6_Witness ==
    /\ last.op = "valid_roa"
    /\ last.ret = 1
    /\ Len(last.arg.ips) > 0
    /\ auths[auth_find(auths, last.arg.aki)].parent # NOAUTH
    /\ last.out = TAL1

-----------------------------------------------------------------------------
(* Vocabulary of the claims about the BRK set. *)

KeyOf(r) == <<r.asid, r.ski, r.pubkey>>

\* The positions of the history at which key k was inserted.
InsertsOf(k) == { n \in 1..Len(brklog) : KeyOf(brklog[n]) = k }

\* The AS numbers a certificate names.
AsNumbers(cert) ==
    UNION { IF cert.as[i].type = CERT_AS_ID THEN {cert.as[i].id}
            ELSE IF cert.as[i].type = CERT_AS_RANGE
                 THEN cert.as[i].range.min .. cert.as[i].range.max
                 ELSE {} : i \in 1..Len(cert.as) }

\* The keys the certificates processed so far call for.
KeysOfCert(cert) == { <<n, cert.ski, cert.pubkey>> : n \in AsNumbers(cert) }
ExpectedKeys(cs) == UNION { KeysOfCert(cs[j]) : j \in 1..Len(cs) }

-----------------------------------------------------------------------------
\* C7: the BRK set holds one record per key (asid, ski, pubkey); each
\* inserted key has a record; the record's expiry is the maximum over all
\* inserts of the key and its TAL is that of the earliest insert with that
\* maximum (so an insert that is not strictly later changes nothing).
C7_BrkSet ==
    /\ \A r1, r2 \in brks : KeyOf(r1) = KeyOf(r2) => r1 = r2
    /\ \A n \in 1..Len(brklog) : \E r \in brks : KeyOf(r) = KeyOf(brklog[n])
    /\ \A r \in brks :
           LET idx == InsertsOf(KeyOf(r))
           IN  /\ idx # {}
               /\ \A n \in idx : brklog[n].expires <= r.expires
               /\ \E n \in idx :
                      /\ brklog[n].expires = r.expires
                      /\ brklog[n].tal = r.tal
                      /\ \A m \in idx : m < n => brklog[m].expires < r.expires

\* A key inserted twice with the same expiry under different TALs, and a key
\* whose later insert raised the expiry.
C7_Witness ==
    /\ \E n, m \in 1..Len(brklog) :
           /\ n < m
           /\ KeyOf(brklog[n]) = KeyOf(brklog[m])
           /\ brklog[n].expires = brklog[m].expires
           /\ brklog[n].tal # brklog[m].tal
    /\ Cardinality(brks) < Len(brklog)
    /\ ~brkrun.busy

-----------------------------------------------------------------------------
\* C8: cert_insert_brks terminates, having made one insert per AS number of
\* the certificate: it never makes more inserts than the certificate has AS
\* numbers, never stores a key the certificates do not call for, and on
\* return every key called for has exactly one record; this for every range,
\* those reaching UINT32_MAX and those with the top bit set included, and
\* with inherit entries adding nothing.
C8_InsertBrksExact ==
    /\ brkrun.busy => brkrun.n <= Cardinality(AsNumbers(BrkCert))
    /\ \A r \in brks : KeyOf(r) \in ExpectedKeys(brkcerts)
    /\ ~brkrun.busy =>
           \A k \in ExpectedKeys(brkcerts) :
               Cardinality({ r \in brks : KeyOf(r) = k }) = 1

-----------------------------------------------------------------------------
(* Vocabulary of the claims about the parser and the serializer. *)

\* Does the certificate carry an extension with this NID?
Carries(der, nid) == \E i \in 1..Len(der.exts) : der.exts[i].nid = nid

-----------------------------------------------------------------------------
\* C9 (as stated): cert_read of the bytes cert_buffer wrote for a parsed
\* record yields a record equal to it in every field, the x509 handle
\* included.
C9_RoundTrip == rd.done => rd.cert = sent

\* C9 (amended): cert_read of the bytes cert_buffer wrote for a parsed record
\* yields a record equal to it in every field but the x509 handle, which is
\* null in the record read; the whole buffer is consumed.
C9_RoundTripButX509 ==
    rd.done => /\ rd.cert = [sent EXCEPT !.x509 = NOX509]
               /\ wire = <<>>

\* A record with a prefix or a range, an inherit entry, AS numbers, all three
\* SIA locations and a handle has gone through the pipe.
C9_Witness ==
    /\ rd.done
    /\ sent.x509 # NOX509
    /\ sent.notify # NULL /\ sent.mft # NULL /\ sent.aia # NULL
    /\ \E i \in 1..Len(sent.ips) : sent.ips[i].type = CERT_IP_RANGE
    /\ \E i \in 1..Len(sent.ips) : sent.ips[i].type = CERT_IP_INHERIT
    /\ \E i \in 1..Len(sent.as) : sent.as[i].type = CERT_AS_RANGE
    /\ \E i \in 1..Len(sent.as) : sent.as[i].type = CERT_AS_ID
    /\ sent.tal # NULL

-----------------------------------------------------------------------------
\* C10: a record returned for a trust anchor comes from a certificate with
\* no AIA, no CRL distribution point, and either no AKI or an AKI equal to
\* its SKI; the parser rejects every other certificate when is_ta is set.
C10_TaRejects ==
    (px.op = "ta_parse" /\ px.ret.ok = 1) =>
        /\ ~Carries(px.der, NID_info_access)
        /\ ~Carries(px.der, NID_crl_distribution_points)
        /\ \/ ~Carries(px.der, NID_authority_key_identifier)
           \/ x509_get_aki(px.der, 1) = x509_get_ski(px.der)

-----------------------------------------------------------------------------
\* C11: when is_ta is not set, cert_parse returns a record only for a
\* certificate that carries an AKI, whose AKI differs from its SKI, and that
\* carries an AIA; the record holds that AKI and that AIA.
C11_NonTaRequires ==
    (px.op = "cert_parse" /\ px.ret.ok = 1) =>
        /\ Carries(px.der, NID_authority_key_identifier)
        /\ x509_get_aki(px.der, 0) # x509_get_ski(px.der)
        /\ Carries(px.der, NID_info_access)
        /\ px.ret.cert.aki = x509_get_aki(px.der, 0)
        /\ px.ret.cert.aki # NULL
        /\ px.ret.cert.aia = x509_get_aia(px.der)
        /\ px.ret.cert.aia # NULL

\* cert_parse has returned a record for a certificate whose AKI is not its
\* SKI.
C11_Witness ==
    /\ px.op = "cert_parse" /\ px.ret.ok = 1
    /\ px.ret.cert.aki = SKI2 /\ px.ret.cert.ski = SKI1
    /\ px.ret.cert.aia = URI_AIA

-----------------------------------------------------------------------------
\* C12: every record the parser returns has purpose ca or bgpsec_router; a
\* bgpsec_router record has a public key and no IP entry, and comes from a
\* certificate with a public key and without a subjectInfoAccess extension,
\* whatever that extension holds.
C12_RouterShape ==
    px.ret.ok = 1 =>
        /\ px.ret.cert.purpose \in {CERT_PURPOSE_CA, CERT_PURPOSE_BGPSEC_ROUTER}
        /\ px.ret.cert.purpose = x509_get_purpose(px.der)
        /\ px.ret.cert.purpose = CERT_PURPOSE_BGPSEC_ROUTER =>
               /\ px.ret.cert.pubkey # NULL
               /\ px.ret.cert.pubkey = x509_get_pubkey(px.der)
               /\ Len(px.ret.cert.ips) = 0
               /\ ~Carries(px.der, NID_sinfo_access)

\* The parser has returned a bgpsec_router record.
C12_Witness ==
    /\ px.ret.ok = 1
    /\ px.ret.cert.purpose = CERT_PURPOSE_BGPSEC_ROUTER
    /\ px.ret.cert.pubkey = PK1
    /\ Len(px.ret.cert.as) > 0

-----------------------------------------------------------------------------
\* The access descriptions of the certificate's subjectInfoAccess
\* extensions, in order.
RECURSIVE SiaOf(_, _)
SiaOf(der, i) ==
    IF i > Len(der.exts) THEN <<>>
    ELSE (IF der.exts[i].nid = NID_sinfo_access THEN der.exts[i].ads ELSE <<>>)
         \o SiaOf(der, i + 1)

\* Is a a byte-prefix of b?
IsPrefix(a, b) == Len(a) <= Len(b) /\ SubSeq(b, 1, Len(a)) = a

\* C13: every CA record the parser returns has mft and repo, with repo a
\* byte-prefix of mft, in whatever order the SIA lists caRepository,
\* rpkiManifest and rpkiNotify; a certificate whose SIA names one of the
\* three twice yields no record.
C13_SiaShape ==
    /\ (px.ret.ok = 1 /\ px.ret.cert.purpose = CERT_PURPOSE_CA) =>
           /\ px.ret.cert.mft # NULL
           /\ px.ret.cert.repo # NULL
           /\ IsPrefix(px.ret.cert.repo, px.ret.cert.mft)
    /\ px.op # "none" =>
           LET ads == SiaOf(px.der, 1)
           IN  (\E i, j \in 1..Len(ads) :
                    /\ i < j /\ ads[i].oid = ads[j].oid
                    /\ ads[i].oid \in {carepo_oid, mft_oid, notify_oid})
                   => px.ret.ok = 0

-----------------------------------------------------------------------------
(* C14: the accumulated resources never overlap. *)

\* An address of n octets as a number.
RECURSIVE AddrValue(_, _)
AddrValue(a, n) ==
    IF n = 0 THEN 0 ELSE AddrValue(a, n - 1) * Pow2(ByteBits) + a[n]

IpDisjoint(a, b) ==
    \/ AddrValue(a.max, AfiSize(a.afi)) < AddrValue(b.min, AfiSize(a.afi))
    \/ AddrValue(b.max, AfiSize(a.afi)) < AddrValue(a.min, AfiSize(a.afi))

AsDisjoint(a, b) == AsMax(a) < AsMin(b) \/ AsMax(b) < AsMin(a)

\* C14: whatever sequence of append_ip and append_as calls has been made on
\* one certificate, any two non-inherit IP entries of the same family have
\* disjoint [min, max], any two non-inherit AS entries are disjoint, a
\* failed append has left the sets as they were, and a successful one has
\* added exactly its entry at the end.
C14_NonOverlap ==
    /\ \A i, j \in 1..Len(accres.ips) :
           (/\ i < j
            /\ accres.ips[i].afi = accres.ips[j].afi
            /\ accres.ips[i].type # CERT_IP_INHERIT
            /\ accres.ips[j].type # CERT_IP_INHERIT)
           => IpDisjoint(accres.ips[i], accres.ips[j])
    /\ \A i, j \in 1..Len(accres.as) :
           (/\ i < j
            /\ accres.as[i].type # CERT_AS_INHERIT
            /\ accres.as[j].type # CERT_AS_INHERIT)
           => AsDisjoint(accres.as[i], accres.as[j])
    /\ (app.op # "none" /\ app.rc = 0) => accres = app.before
    /\ (app.op = "append_ip" /\ app.rc # 0)
           => accres = [app.before EXCEPT !.ips = Append(@, app.ent)]
    /\ (app.op = "append_as" /\ app.rc # 0)
           => accres = [app.before EXCEPT !.as = Append(@, app.ent)]

\* Two prefixes of one family and two AS entries are held, and an
\* overlapping IP entry has just been refused.
C14_Witness ==
    /\ \E i, j \in 1..Len(accres.ips) :
           /\ i < j
           /\ accres.ips[i].afi = accres.ips[j].afi
           /\ accres.ips[i].type # CERT_IP_INHERIT
           /\ accres.ips[j].type # CERT_IP_INHERIT
    /\ \E i, j \in 1..Len(accres.as) :
           /\ i < j
           /\ accres.as[i].type # CERT_AS_INHERIT
           /\ accres.as[j].type # CERT_AS_INHERIT
    /\ app.op = "append_ip" /\ app.rc = 0
    /\ app.ent.type # CERT_IP_INHERIT

-----------------------------------------------------------------------------
(* C15: the names valid_filename accepts. *)

NameChars == (48..57) \cup (65..90) \cup (97..122) \cup {45, 46, 95}

LowerCase(s) == [i \in 1..Len(s) |-> IF s[i] \in 65..90 THEN s[i] + 32 ELSE s[i]]

\* C15: valid_filename accepts a name exactly when it has at least five
\* characters, all of them letters, digits, '.', '_' or '-', exactly one of
\* them a '.', and its last four are .cer, .crl, .gbr or .roa in any case;
\* a.cer, A.CER and a-b_c.ROA are accepted, .cer, a.b.cer and a.txt are not.
C15_Filename ==
    call.op = "valid_filename" =>
        /\ call.ret \in {0, 1}
        /\ call.ret = 1 <=>
            /\ Len(call.s) >= 5
            /\ \A i \in 1..Len(call.s) : call.s[i] \in NameChars
            /\ Cardinality({ i \in 1..Len(call.s) : call.s[i] = 46 }) = 1
            /\ LowerCase(SubSeq(call.s, Len(call.s) - 3, Len(call.s)))
                   \in {EXT_CER, EXT_CRL, EXT_GBR, EXT_ROA}
        /\ call.s \in {NAME_a_cer, NAME_A_CER, NAME_a_b_c_ROA} => call.ret = 1
        /\ call.s \in {NAME_cer, NAME_a_b_cer, NAME_a_txt} => call.ret = 0

\* a-b_c.ROA has been accepted.
C15_Witness ==
    call.op = "valid_filename" /\ call.s = NAME_a_b_c_ROA /\ call.ret = 1

-----------------------------------------------------------------------------
(* C16: the URIs valid_uri accepts. *)

\* The usz bytes valid_uri is asked about.
UriBytes == [i \in 1..call.sz |-> CharAt(call.s, i)]

\* C16: valid_uri accepts exactly when each of the usz bytes is an ASCII
\* letter, digit or punctuation character, the bytes begin with proto in any
\* case when proto is given, and no '/' among them is followed by a '.'
\* among them: nothing after the usz bytes has a say.  rsync://x/y.mft is
\* accepted with rsync://, https://x/./y and http://x are refused with
\* https://.
C16_Uri ==
    call.op = "valid_uri" =>
        /\ call.ret \in {0, 1}
        /\ call.ret = 1 <=>
            /\ \A i \in 1..call.sz : UriBytes[i] \in 33..126
            /\ call.proto # NULL =>
                   /\ call.sz >= Len(call.proto)
                   /\ LowerCase(SubSeq(UriBytes, 1, Len(call.proto)))
                          = LowerCase(call.proto)
            /\ \A i \in 1..(call.sz - 1) :
                   ~(UriBytes[i] = 47 /\ UriBytes[i + 1] = 46)
        /\ (/\ call.s = URI_rsync_x_y_mft /\ call.sz = Len(call.s)
            /\ call.proto = PROTO_RSYNC) => call.ret = 1
        /\ (/\ call.s \in {URI_https_x_dot_y, URI_http_x}
            /\ call.sz = Len(call.s)
            /\ call.proto = PROTO_HTTPS) => call.ret = 0

-----------------------------------------------------------------------------
(* C17: ta_parse and the key of the TAL. *)

\* The certificate passes every check that does not involve the TAL's key.
TaParsesAlone == \E ub \in UbOutcomes : cert_parse_inner(px.der, 1, ub).ok = 1

\* C17: a ta_parse call that returns hands out a record only if a TAL key
\* was given and equals the certificate's subject public key; with no TAL
\* key, no public key in the certificate or two different keys it returns
\* null, with the X.509 handle set to null and no record kept.
C17_TaNeedsKey ==
    (px.op = "ta_parse" /\ ~px.ret.crash) =>
        /\ px.ret.ok = 1 =>
               /\ px.pkey # NULL
               /\ px.der.spki # NULL
               /\ px.pkey = px.der.spki
               /\ px.ret.xp = px.der.id
        /\ (px.pkey = NULL \/ px.der.spki = NULL \/ px.pkey # px.der.spki) =>
               /\ px.ret.ok = 0
               /\ px.ret.xp = NOX509
               /\ px.ret.cert = ZeroCert

\* A certificate that is a good trust anchor was refused for its key alone:
\* the TAL names another key.
C17_Witness ==
    /\ px.op = "ta_parse" /\ ~px.ret.crash
    /\ TaParsesAlone
    /\ px.pkey = PK2 /\ px.der.spki = PK1
    /\ px.ret.ok = 0 /\ px.ret.xp = NOX509

-----------------------------------------------------------------------------
(* C18: the walk up the chain takes the first answer that decides. *)

\* The containment test at authority n: > 0 covered, < 0 refused, 0
\* indeterminate; an empty AS set is not asked.
AsAnswer(tree, n, min, max) ==
    IF Len(tree[n].cert.as) = 0 THEN 0
    ELSE as_check_covered(min, max, tree[n].cert.as)

IpAnswer(tree, n, afi, min, max) ==
    ip_addr_check_covered(afi, min, max, tree[n].cert.ips)

\* The steps of the chain from a at which the test decides.
AsDeciding(tree, a, min, max) ==
    { k \in 0..Len(tree) :
        /\ ChainAt(tree, a, k) # NOAUTH
        /\ AsAnswer(tree, ChainAt(tree, a, k), min, max) # 0 }

IpDeciding(tree, a, afi, min, max) ==
    { k \in 0..Len(tree) :
        /\ ChainAt(tree, a, k) # NOAUTH
        /\ IpAnswer(tree, ChainAt(tree, a, k), afi, min, max) # 0 }

Least(S) == CHOOSE k \in S : \A j \in S : k <= j

\* The AS ranges and the address ranges asked about.
AsProbes == { <<AsnA, AsnA>>, <<AsnB, AsnB>>, <<AsnC, AsnC>>, <<AsnA, AsnB>> }
IpProbes == { P0, P10, P10_1, P11, P6 }

\* C18: from every authority of the tree (and from a null one) valid_as and
\* valid_ip give the answer of the nearest authority on the chain whose
\* containment test is not indeterminate, 1 for covered and 0 for refused,
\* and 0 when no authority of the chain decides; what lies above the first
\* deciding authority has no say.  An authority with no AS entry at all is
\* indeterminate for AS.
C18_ThreeValuedWalk ==
    \A a \in 0..Len(auths) :
        /\ \A p \in AsProbes :
               LET d == AsDeciding(auths, a, p[1], p[2])
               IN  valid_as(auths, a, p[1], p[2]) =
                       IF d = {} THEN 0
                       ELSE IF AsAnswer(auths, ChainAt(auths, a, Least(d)),
                                        p[1], p[2]) > 0
                       THEN 1 ELSE 0
        /\ \A p \in IpProbes :
               LET d == IpDeciding(auths, a, p.afi, p.min, p.max)
               IN  valid_ip(auths, a, p.afi, p.min, p.max) =
                       IF d = {} THEN 0
                       ELSE IF IpAnswer(auths, ChainAt(auths, a, Least(d)),
                                        p.afi, p.min, p.max) > 0
                       THEN 1 ELSE 0

\* A chain of three: the nearest authority is indeterminate for an address
\* range, its parent refuses it although the trust anchor above covers it;
\* and an authority with an empty AS set passes an AS range up to a parent
\* that covers it.
C18_Witness ==
    /\ \E a \in 1..Len(auths), p \in IpProbes :
           /\ IpAnswer(auths, a, p.afi, p.min, p.max) = 0
           /\ auths[a].parent # NOAUTH
           /\ IpAnswer(auths, auths[a].parent, p.afi, p.min, p.max) < 0
           /\ auths[auths[a].parent].parent # NOAUTH
           /\ IpAnswer(auths, auths[auths[a].parent].parent,
                       p.afi, p.min, p.max) > 0
           /\ valid_ip(auths, a, p.afi, p.min, p.max) = 0
    /\ \E a \in 1..Len(auths), p \in AsProbes :
           /\ Len(auths[a].cert.as) = 0
           /\ auths[a].parent # NOAUTH
           /\ valid_as(auths, a, p[1], p[2]) = 1

-----------------------------------------------------------------------------
(* C19: an object is judged against the tree as it is, once. *)

\* The verdict on a certificate whose key is new and whose parent is a: each
\* AS entry inherits (a CA only) or is covered from a on, each IP entry is
\* covered from a on.
CertCovered(tree, a, cert) ==
    /\ \A i \in 1..Len(cert.as) :
           IF cert.as[i].type = CERT_AS_INHERIT
           THEN cert.purpose # CERT_PURPOSE_BGPSEC_ROUTER
           ELSE valid_as(tree, a, AsMin(cert.as[i]), AsMax(cert.as[i])) = 1
    /\ \A i \in 1..Len(cert.ips) :
           valid_ip(tree, a, cert.ips[i].afi, cert.ips[i].min,
                    cert.ips[i].max) = 1

RoaCovered(tree, a, roa) ==
    \A i \in 1..Len(roa.ips) :
        valid_ip(tree, a, roa.ips[i].afi, roa.ips[i].min, roa.ips[i].max) = 1

\* The authority of the tree with the given SKI (one at most, see C4).
ParentOf(tree, aki) == CHOOSE i \in 1..Len(tree) : tree[i].cert.ski = aki

\* One validator call, from the tree before it to the tree after it.
C19_Step ==
    /\ (last'.op \in {"valid_cert", "valid_roa"}
            /\ ~InTree(auths, last'.arg.aki))
           => (last'.ret = 0 /\ auths' = auths)
    /\ \/ auths' = auths
       \/ /\ last'.op \in {"valid_ta", "valid_cert"}
          /\ last'.ret = 1
          /\ Len(auths') = Len(auths) + 1
          /\ SubSeq(auths', 1, Len(auths)) = auths
          /\ auths'[Len(auths')].cert.ski = last'.arg.ski
    /\ (last'.op \in {"valid_cert", "valid_roa"}
            /\ InTree(auths, last'.arg.aki)
            /\ ~InTree(auths, last'.arg.ski))
           => (last'.ret = 1 <=>
                  IF last'.op = "valid_cert"
                  THEN CertCovered(auths, ParentOf(auths, last'.arg.aki),
                                   last'.arg)
                  ELSE RoaCovered(auths, ParentOf(auths, last'.arg.aki),
                                  last'.arg))

\* C19: nothing is kept for later.  A certificate or ROA validated while no
\* authority of the tree has its AKI as SKI is refused and the tree stays as
\* it was; the tree only ever changes by the certificate a call has just
\* accepted, so a refusal is never revised when the parent arrives; and a
\* call on an object whose parent is in the tree is decided by the coverage
\* of its resources in the tree of that moment, whatever was refused before.
C19_NoBuffering == [][C19_Step]_vars

\* A certificate has just been refused for its unknown parent, in a tree
\* that holds other authorities.
C19_Witness ==
    /\ last.op = "valid_cert" /\ last.ret = 0
    /\ Len(auths) > 0
    /\ ~InTree(auths, last.arg.aki)
    /\ ~InTree(auths, last.arg.ski)

-----------------------------------------------------------------------------
(* C20: the assertions of cert_read. *)

\* C20: a record that cert_parse or ta_parse returned has its SKI, and its
\* manifest unless it is a BGPsec router certificate; written by cert_buffer
\* and read by cert_read it still has them, so that neither assertion of
\* cert_read fails.
C20_ReadAsserts ==
    /\ px.ret.ok = 1 =>
           /\ px.ret.cert.ski # NULL
           /\ (px.ret.cert.mft # NULL
                  \/ px.ret.cert.purpose = CERT_PURPOSE_BGPSEC_ROUTER)
    /\ rd.done =>
           /\ rd.assert
           /\ rd.cert.ski # NULL
           /\ (rd.cert.mft # NULL
                  \/ rd.cert.purpose = CERT_PURPOSE_BGPSEC_ROUTER)

\* A router certificate, which has no manifest, has been parsed, written and
\* read back.
C20_Witness ==
    /\ px.op = "cert_parse" /\ px.ret.ok = 1
    /\ rd.done /\ rd.assert
    /\ rd.cert.purpose = CERT_PURPOSE_BGPSEC_ROUTER
    /\ rd.cert.mft = NULL
    /\ rd.cert.ski = SKI1

-----------------------------------------------------------------------------
(* C21: an extension that occurs twice. *)

\* The positions of the extensions with the given NID.
ExtsAt(der, nid) == { i \in 1..Len(der.exts) : der.exts[i].nid = nid }

FirstExt(der, nid) == der.exts[Least(ExtsAt(der, nid))]

\* The fields the access descriptions of an extension name.
SiaFields(ext) ==
    { ext.ads[i].oid : i \in 1..Len(ext.ads) }
        \cap {carepo_oid, mft_oid, notify_oid}

\* C21: of two sbgp-ipAddrBlock extensions, and of two
\* sbgp-autonomousSysNum extensions, the first one alone makes the IP set
\* and the AS set of the record returned and the later one adds no entry;
\* a later subjectInfoAccess extension that names a field an earlier one
\* has set makes the parse fail.
C21_FirstWins ==
    /\ (px.ret.ok = 1 /\ ExtsAt(px.der, NID_sbgp_ipAddrBlock) # {}) =>
           px.ret.cert.ips =
               sbgp_ipaddrblk(ZeroCert,
                              FirstExt(px.der, NID_sbgp_ipAddrBlock)).res.ips
    /\ (px.ret.ok = 1 /\ ExtsAt(px.der, NID_sbgp_autonomousSysNum) # {}) =>
           px.ret.cert.as =
               sbgp_assysnum(ZeroCert,
                             FirstExt(px.der, NID_sbgp_autonomousSysNum)).res.as
    /\ (/\ px.op # "none"
        /\ \E i, j \in ExtsAt(px.der, NID_sinfo_access) :
               i < j /\ SiaFields(px.der.exts[i]) \cap
                            SiaFields(px.der.exts[j]) # {})
           => px.ret.ok = 0

-----------------------------------------------------------------------------
(* C22: what a failed parse leaves allocated. *)

\* C22: a parse that returns failure leaves nothing it allocated: no record
\* and no X.509 object are handed out, and no decoded ASN.1 sequence of a
\* sub-parser is still allocated, whichever test failed.
C22_FailureReleasesAll ==
    (px.op # "none" /\ px.ret.ok = 0 /\ ~px.ret.crash) =>
        /\ px.ret.cert = ZeroCert
        /\ px.ret.xp = NOX509
        /\ px.ret.live = {}

-----------------------------------------------------------------------------
(* C23: a subjectInfoAccess without caRepository or rpkiManifest. *)

\* The certificate has a subjectInfoAccess extension, and the first one
\* names no caRepository or no rpkiManifest (an empty sequence names neither).
SiaIncomplete(der) ==
    /\ ExtsAt(der, NID_sinfo_access) # {}
    /\ ~({carepo_oid, mft_oid}
            \subseteq SiaFields(FirstExt(der, NID_sinfo_access)))

\* C23: a certificate whose subjectInfoAccess lacks caRepository, lacks
\* rpkiManifest or is empty is refused as an object: the parse returns
\* failure and the process goes on, whatever a read of the absent value in the
\* prefix test would have given.
C23_SiaIncompleteRejected ==
    (px.op # "none" /\ SiaIncomplete(px.der)) =>
        (px.ret.ok = 0 /\ ~px.ret.crash)

====
